---- MODULE Spec2Model ----
(***************************************************************************)
(* gofman: authorization policy (pkg/gofman), the sqlite services that     *)
(* consult it, and the HTTP authentication middleware.                     *)
(*                                                                         *)
(* Identifiers (UUID strings in the source) are short strings; EmptyID is   *)
(* the empty string "".  Other strings whose length or case matters are    *)
(* sequences of one-character strings.                                     *)
(***************************************************************************)
EXTENDS Integers, Sequences, FiniteSets, TLC

\* ------------------------------------------------------------------ bounds
MaxUsers == 1       \* rows of the users table
MaxRows == 1        \* rows of the files, tags and actors tables together
MaxSessions == 2    \* sessions ever created
MaxStores == 1      \* stores holding rows at once when all writes are explored
MaxRandomLen == 34   \* longest slice asked of GenerateRandomBytes
NegativeLens == 3    \* lengths below zero asked of GenerateRandomBytes
MaxCodeLen == 3      \* longest byte or character sequence encoded or decoded

\* ------------------------------------------------------- program constants
MaxUsernameLen == 35
MinPasswordLen == 7
MinTokenLen == 32
MaxTagNameLen == 255
MaxActorNameLen == 255

\* Application error codes; OK is the nil error.
OK == "ok"
EINTERNAL == "internal"
EINVALID == "invalid"
ENOTFOUND == "not_found"
EUNAUTHORIZED == "unauthorized"

\* ------------------------------------------------------------ input values
EmptyID == ""
IDs == {"u1", "u2"}
IDsOrEmpty == IDs \cup {EmptyID}

Repeat(c, n) == [i \in 1..n |-> c]

Ann == <<"A", "n", "n">>
Bob == <<"b", "o", "b">>
Password1 == <<"p", "a", "s", "s", "w", "o", "r", "d">>
ShortPassword == <<"p", "w">>

\* A *string: nil, or the address of a variable and the value stored there.
\* Callers hand in pointers to their own variables ("caller"); a callee's
\* local variable has an address of its own.
NilPtr == [addr |-> "nil", val |-> EmptyID]
PtrTo(addr, v) == [addr |-> addr, val |-> v]
IsNilPtr(p) == p.addr = "nil"
\* Go pointer equality: same variable, or both nil.
PtrEq(p, q) == p.addr = q.addr
CallerPtrs(vals) == {NilPtr} \cup { PtrTo("caller", v) : v \in vals }

\* ---------------------------------------------------------------- context
\* *User stored in a context: nil, or a user struct.
NilUser == [isNil |-> TRUE, ID |-> EmptyID, IsAdmin |-> FALSE, IsDemo |-> FALSE]
NilSession == [isNil |-> TRUE, ID |-> EmptyID, UserID |-> EmptyID, Token |-> <<>>]

CtxUsers == [isNil : {FALSE}, ID : IDsOrEmpty, IsAdmin : BOOLEAN, IsDemo : BOOLEAN]

\* context.Background(): no request id, no user, no session.
Background == [requestID |-> EmptyID, user |-> NilUser, session |-> NilSession]
NewContextWithRequestID(ctx, v) == [ctx EXCEPT !.requestID = v]
RequestIDFromContext(ctx) == ctx.requestID
\* Mutant: the user is attached to a context that forgot its other values.
NewContextWithUser_DropsSession(ctx, user) == [Background EXCEPT !.user = user]
NewContextWithUser(ctx, user) == [ctx EXCEPT !.user = user]
NewContextWithSession(ctx, session) == [ctx EXCEPT !.session = session]
UserFromContext(ctx) == ctx.user
SessionFromContext(ctx) == ctx.session
UserIDFromContext(ctx) ==
  IF ~UserFromContext(ctx).isNil THEN UserFromContext(ctx).ID ELSE EmptyID

\* Contexts a caller of the services can build.
Contexts == {Background} \cup { NewContextWithUser(Background, u) : u \in CtxUsers }

\* ------------------------------------------------------------- variables
VARIABLES
  users,      \* users table, in created_at order
  files,      \* files table, in created_at order
  tags,       \* tags table, in created_at order
  actors,     \* actors table, in created_at order
  sessions,   \* sessions table, in created_at order
  created,    \* number of sessions ever created (identifiers are not reused)
  req,        \* the HTTP request in flight and how far the middleware chain got
  last        \* the last call: operation, inputs, outcome

vars == <<users, files, tags, actors, sessions, created, req, last>>
sessionStore == <<sessions, created>>
resources == <<files, tags, actors>>

NoCall == [op |-> "none"]

\* ----------------------------------------------------------- user policy
\* Mutant: every context may look users up.
CanFindUser_Anyone(ctx, filter) == TRUE

\* filter.ID == &id compares the filter's pointer with the address of the
\* local variable id.
CanFindUser(ctx, filter) ==
  IF PtrEq(filter.ID, PtrTo("CanFindUser.id", UserIDFromContext(ctx)))
  THEN TRUE
  ELSE IF ~UserFromContext(ctx).isNil
  THEN UserFromContext(ctx).IsAdmin
  ELSE FALSE

\* Mutant: any logged-in user may create users.
CanCreateUser_AnyUser(ctx) == ~UserFromContext(ctx).isNil

CanCreateUser(ctx) ==
  IF ~UserFromContext(ctx).isNil THEN UserFromContext(ctx).IsAdmin ELSE FALSE

\* The if statement's own `user` (the context's user) shadows the parameter
\* in the else-if chain: user.ID there is the acting user's ID, and a nil
\* context user is dereferenced.  The result carries panic = TRUE for the
\* run-time panic.
CanUpdateUser(ctx, user) ==
  LET u == UserFromContext(ctx) IN
  IF ~u.isNil /\ u.IsDemo
  THEN [panic |-> FALSE, ret |-> FALSE]
  ELSE IF u.isNil
  THEN [panic |-> TRUE, ret |-> FALSE]
  ELSE IF u.ID = UserIDFromContext(ctx)
  THEN [panic |-> FALSE, ret |-> TRUE]
  ELSE IF ~UserFromContext(ctx).isNil
  THEN [panic |-> FALSE, ret |-> UserFromContext(ctx).IsAdmin]
  ELSE [panic |-> FALSE, ret |-> FALSE]

\* ----------------------------------------------------- strings and bytes
\* A Go string is a sequence of one-character strings; the characters are
\* the printable ASCII characters but the backquote (byte 96), "\n" and
\* "\r".
Printable ==
  <<" ", "!", "\"", "#", "$", "%", "&", "'", "(", ")", "*", "+", ",", "-",
     ".", "/", "0", "1", "2", "3", "4", "5", "6", "7", "8", "9", ":", ";",
     "<", "=", ">", "?", "@", "A", "B", "C", "D", "E", "F", "G", "H", "I",
     "J", "K", "L", "M", "N", "O", "P", "Q", "R", "S", "T", "U", "V", "W",
     "X", "Y", "Z", "[", "\\", "]", "^", "_", "a", "b", "c", "d", "e",
     "f", "g", "h", "i", "j", "k", "l", "m", "n", "o", "p", "q", "r", "s",
     "t", "u", "v", "w", "x", "y", "z", "{", "|", "}", "~">>

\* []byte(s): the byte of each character.
ByteOf(c) ==
  IF c = "\n" THEN 10
  ELSE IF c = "\r" THEN 13
  ELSE LET i == CHOOSE j \in 1..Len(Printable) : Printable[j] = c
       IN IF i <= 64 THEN 31 + i ELSE 32 + i
Bytes(s) == [i \in 1..Len(s) |-> ByteOf(s[i])]

HasPrefix(s, lit) == Len(s) >= Len(lit) /\ SubSeq(s, 1, Len(lit)) = lit
Drop(s, n) == SubSeq(s, n + 1, Len(s))

\* strings.Split(s, sep) for a one-character separator: the pieces between
\* the occurrences of sep, in order.
SepPositions(s, sep) == {i \in 1..Len(s) : s[i] = sep}
NthSep(s, sep, n) ==
  IF n = 0 THEN 0
  ELSE IF n > Cardinality(SepPositions(s, sep)) THEN Len(s) + 1
  ELSE CHOOSE i \in SepPositions(s, sep) :
         Cardinality({j \in SepPositions(s, sep) : j < i}) = n - 1
Split(s, sep) ==
  [n \in 1..(Cardinality(SepPositions(s, sep)) + 1) |->
     SubSeq(s, NthSep(s, sep, n - 1) + 1, NthSep(s, sep, n) - 1)]

\* ---------------------------------------------------------- fmt: %d
Digits == <<"0", "1", "2", "3", "4", "5", "6", "7", "8", "9">>
IsDigit(c) == \E i \in 1..10 : Digits[i] = c
DigitVal(c) == (CHOOSE i \in 1..10 : Digits[i] = c) - 1

\* Sprintf("%d", n) for n >= 0.
RECURSIVE FormatInt(_)
FormatInt(n) ==
  IF n < 10 THEN <<Digits[n + 1]>> ELSE Append(FormatInt(n \div 10), Digits[(n % 10) + 1])

RECURSIVE ParseDec(_)
ParseDec(digs) ==
  IF digs = <<>> THEN 0
  ELSE ParseDec(SubSeq(digs, 1, Len(digs) - 1)) * 10 + DigitVal(digs[Len(digs)])

RECURSIVE DigitPrefixLen(_)
DigitPrefixLen(s) ==
  IF s = <<>> \/ ~IsDigit(Head(s)) THEN 0 ELSE 1 + DigitPrefixLen(Tail(s))

RECURSIVE SkipSpace(_)
SkipSpace(s) == IF s # <<>> /\ Head(s) = " " THEN SkipSpace(Tail(s)) ELSE s

RECURSIVE StripZeros(_)
StripZeros(digs) ==
  IF Len(digs) > 1 /\ Head(digs) = "0" THEN StripZeros(Tail(digs)) ELSE digs

\* a > b for digit strings without leading zeros.
RECURSIVE DecGreater(_, _)
DecGreater(a, b) ==
  IF Len(a) # Len(b) THEN Len(a) > Len(b)
  ELSE IF a = <<>> THEN FALSE
  ELSE IF Head(a) # Head(b) THEN DigitVal(Head(a)) > DigitVal(Head(b))
  ELSE DecGreater(Tail(a), Tail(b))

MaxUint8 == <<"2", "5", "5">>
MaxUint32 == <<"4", "2", "9", "4", "9", "6", "7", "2", "9", "5">>
MaxInt64 ==
  <<"9", "2", "2", "3", "3", "7", "2", "0", "3", "6", "8", "5", "4", "7", "7", "5", "8", "0", "7">>

ScanFailed == [err |-> TRUE, val |-> 0, rest |-> <<>>]

\* A literal of the format: the input has to continue with it.
ScanLiteral(s, lit) ==
  IF HasPrefix(s, lit) THEN [err |-> FALSE, val |-> 0, rest |-> Drop(s, Len(lit))]
  ELSE ScanFailed

\* %d into an unsigned integer whose largest value is max: leading spaces are
\* skipped, at least one digit is needed, the value has to fit; what follows
\* the digits is left in the input.
ScanUint(s, max) ==
  LET t == SkipSpace(s)
      n == DigitPrefixLen(t)
  IN
  IF n = 0 THEN ScanFailed
  ELSE IF DecGreater(StripZeros(SubSeq(t, 1, n)), max) THEN ScanFailed
  ELSE [err |-> FALSE, val |-> ParseDec(SubSeq(t, 1, n)), rest |-> Drop(t, n)]

\* %d into an int: as ScanUint, after an optional sign.
ScanInt(s) ==
  LET t == SkipSpace(s)
      neg == t # <<>> /\ Head(t) = "-"
      u == IF t # <<>> /\ Head(t) \in {"+", "-"} THEN Tail(t) ELSE t
      n == DigitPrefixLen(u)
  IN
  IF n = 0 THEN ScanFailed
  ELSE IF DecGreater(StripZeros(SubSeq(u, 1, n)), MaxInt64) THEN ScanFailed
  ELSE [err |-> FALSE,
        val |-> IF neg THEN 0 - ParseDec(SubSeq(u, 1, n)) ELSE ParseDec(SubSeq(u, 1, n)),
        rest |-> Drop(u, n)]

\* ------------------------------------------------------------- base64
\* base64.RawURLEncoding: the URL alphabet, no padding.
Base64URL ==
  <<"A", "B", "C", "D", "E", "F", "G", "H", "I", "J", "K", "L", "M", "N",
     "O", "P", "Q", "R", "S", "T", "U", "V", "W", "X", "Y", "Z", "a", "b",
     "c", "d", "e", "f", "g", "h", "i", "j", "k", "l", "m", "n", "o", "p",
     "q", "r", "s", "t", "u", "v", "w", "x", "y", "z", "0", "1", "2", "3",
     "4", "5", "6", "7", "8", "9", "-", "_">>

\* Every three bytes give four characters of six bits each; one or two
\* bytes at the end give two or three characters.
ByteAt(b, i) == IF i <= Len(b) THEN b[i] ELSE 0
SextetAt(b, k) ==
  LET g == 3 * ((k - 1) \div 4) IN
  CASE (k - 1) % 4 = 0 -> ByteAt(b, g + 1) \div 4
    [] (k - 1) % 4 = 1 -> ((ByteAt(b, g + 1) % 4) * 16) + (ByteAt(b, g + 2) \div 16)
    [] (k - 1) % 4 = 2 -> ((ByteAt(b, g + 2) % 16) * 4) + (ByteAt(b, g + 3) \div 64)
    [] OTHER -> ByteAt(b, g + 3) % 64
EncodeBytes(b) ==
  [k \in 1..(((Len(b) * 4) + 2) \div 3) |-> Base64URL[SextetAt(b, k) + 1]]

\* Mutant: the standard encoding's padding is written.
EncodeToBase64String_Padded(b) ==
  EncodeBytes(b) \o (CASE Len(b) % 3 = 1 -> <<"=", "=">> [] Len(b) % 3 = 2 -> <<"=">>
                       [] OTHER -> <<>>)

EncodeToBase64String(b) == EncodeBytes(b)

IsBase64URL(c) == \E i \in 1..64 : Base64URL[i] = c
Base64Val(c) == (CHOOSE i \in 1..64 : Base64URL[i] = c) - 1

\* Groups of four characters give three bytes; two or three characters at
\* the end give one or two bytes, their unused low bits are not looked at.
DecodeVals(v) ==
  [k \in 1..((Len(v) * 3) \div 4) |->
     LET g == 4 * ((k - 1) \div 3) IN
     CASE (k - 1) % 3 = 0 -> (v[g + 1] * 4) + (v[g + 2] \div 16)
       [] (k - 1) % 3 = 1 -> ((v[g + 2] % 16) * 16) + (v[g + 3] \div 4)
       [] OTHER -> ((v[g + 3] % 4) * 64) + v[g + 4]]

\* DecodeString skips "\r" and "\n"; any other character outside the
\* alphabet ("=" included) and a single character left at the end are a
\* CorruptInputError.
DecodeBase64String(s) ==
  LET t == SelectSeq(s, LAMBDA c : c \notin {"\n", "\r"}) IN
  IF \E i \in 1..Len(t) : ~IsBase64URL(t[i]) THEN [err |-> TRUE, bytes |-> <<>>]
  ELSE IF Len(t) % 4 = 1 THEN [err |-> TRUE, bytes |-> <<>>]
  ELSE [err |-> FALSE, bytes |-> DecodeVals([i \in 1..Len(t) |-> Base64Val(t[i])])]

\* ------------------------------------------------------------- argon2
ArgonTime == 1
ArgonMemory == 65536
ArgonThreads == 4
ArgonKeyLen == 32
\* argon2.Version
ArgonVersion == 19

RECURSIVE Absorb(_, _)
Absorb(h, b) == IF b = <<>> THEN h ELSE Absorb(((h * 33) + Head(b) + 1) % 65521, Tail(b))

\* The memory argon2 works with: a multiple of 4 * threads, at least
\* 8 * threads.
ArgonBlocks(memory, threads) ==
  IF (memory \div (4 * threads)) * (4 * threads) < 8 * threads THEN 8 * threads
  ELSE (memory \div (4 * threads)) * (4 * threads)

\* argon2.IDKey: keyLen bytes determined by all six arguments.  The digest
\* is a stand-in for Argon2id that keeps what the callers rely on: the same
\* arguments give the same bytes, and other arguments give other bytes.  The
\* library panics for time < 1 and threads < 1, and for keyLen = 0.
IDKey(password, salt, time, memory, threads, keyLen) ==
  IF time < 1 \/ threads < 1 \/ keyLen < 1 THEN [panic |-> TRUE, key |-> <<>>]
  ELSE LET seed == Absorb(Absorb(Absorb(7, password) + 1, salt) + 1,
                          <<time % 65521, ArgonBlocks(memory, threads) % 65521,
                            threads, keyLen % 65521>>)
       IN [panic |-> FALSE,
           key |-> [i \in 1..keyLen |-> ((seed * i) + (seed \div 256) + i) % 256]]

\* subtle.ConstantTimeCompare
ConstantTimeCompare(x, y) == IF x = y THEN 1 ELSE 0

\* Errors of the libraries, which are not application errors.
ErrScan == "fmt: scan error"
ErrCorruptInput == "base64.CorruptInputError"

\* gofman.ErrorCode: the code of an application error, EINTERNAL for any
\* other error, OK for nil.
ErrorCode(err) ==
  IF err = OK THEN OK
  ELSE IF err \in {EINTERNAL, EINVALID, ENOTFOUND, EUNAUTHORIZED} THEN err
  ELSE EINTERNAL

\* ------------------------------------------------------- random strings
\* What rand.Read may write: byte i of the source r.
RandomSources == {0, 37, 255}
RandomByte(r, i) == (r * i) % 256

\* GenerateRandomBytes(n) reading the source r: only n < -1 is refused;
\* make([]byte, -1) panics.
GenerateRandomBytes(n, r) ==
  IF n < -1 THEN [err |-> EINTERNAL, panic |-> FALSE, bytes |-> <<>>]
  ELSE IF n < 0 THEN [err |-> EINTERNAL, panic |-> TRUE, bytes |-> <<>>]
  ELSE [err |-> OK, panic |-> FALSE, bytes |-> [i \in 1..n |-> RandomByte(r, i)]]

\* Shared body of NewToken, NewPassword and NewSalt.
RandomString(n, r) ==
  LET g == GenerateRandomBytes(n, r) IN
  IF g.err # OK THEN [err |-> g.err, s |-> <<>>]
  ELSE [err |-> OK, s |-> EncodeToBase64String(g.bytes)]

TokenBytes == 32
PasswordBytes == 8
SaltBytes == 16
NewToken(r) == RandomString(TokenBytes, r)
\* Mutant: half as many random bytes in a temporary password.
NewPassword_Half(r) == RandomString(PasswordBytes \div 2, r)
NewPassword(r) == RandomString(PasswordBytes, r)
NewSalt(r) == RandomString(SaltBytes, r)
\* The salt of the runs that do not look at passwords.
SaltA == NewSalt(0).s

Dollar == <<"$">>
\* Sprintf("$argon2id$v=%d$m=%d,t=%d,p=%d$%s$%s", ...)
FormatKey(version, memory, time, threads, b64Salt, b64Hash) ==
  Dollar \o <<"a", "r", "g", "o", "n", "2", "i", "d">> \o Dollar \o <<"v", "=">> \o FormatInt(version)
    \o Dollar \o <<"m", "=">> \o FormatInt(memory) \o <<",", "t", "=">> \o FormatInt(time)
    \o <<",", "p", "=">> \o FormatInt(threads) \o Dollar \o b64Salt \o Dollar \o b64Hash

\* Mutant: the salt is not looked at before hashing.
HashPassword_AnySalt(password, salt) ==
  IF password = <<>> THEN [err |-> EINVALID, key |-> <<>>]
  ELSE [err |-> OK,
        key |-> FormatKey(ArgonVersion, ArgonMemory, ArgonTime, ArgonThreads,
                  EncodeToBase64String(Bytes(salt)),
                  EncodeToBase64String(
                    IDKey(Bytes(password), Bytes(salt),
                          ArgonTime, ArgonMemory, ArgonThreads, ArgonKeyLen).key))]

\* AuthService.HashPassword
HashPassword(password, salt) ==
  IF password = <<>> THEN [err |-> EINVALID, key |-> <<>>]
  ELSE IF salt = <<>> THEN [err |-> EINVALID, key |-> <<>>]
  ELSE [err |-> OK,
        key |-> FormatKey(ArgonVersion, ArgonMemory, ArgonTime, ArgonThreads,
                  EncodeToBase64String(Bytes(salt)),
                  EncodeToBase64String(
                    IDKey(Bytes(password), Bytes(salt),
                          ArgonTime, ArgonMemory, ArgonThreads, ArgonKeyLen).key))]

\* Sscanf(decodedKey[2], "v=%d", &p.Version)
ScanVersion(s) ==
  LET l == ScanLiteral(s, <<"v", "=">>) IN IF l.err THEN ScanFailed ELSE ScanInt(l.rest)

\* Sscanf(decodedKey[3], "m=%d,t=%d,p=%d", &p.Memory, &p.Time, &p.Threads)
ScanSettings(s) ==
  LET l1 == ScanLiteral(s, <<"m", "=">>)
      m == ScanUint(l1.rest, MaxUint32)
      l2 == ScanLiteral(m.rest, <<",", "t", "=">>)
      t == ScanUint(l2.rest, MaxUint32)
      l3 == ScanLiteral(t.rest, <<",", "p", "=">>)
      p == ScanUint(l3.rest, MaxUint8)
  IN
  IF l1.err \/ m.err \/ l2.err \/ t.err \/ l3.err \/ p.err
  THEN [err |-> TRUE, Memory |-> 0, Time |-> 0, Threads |-> 0]
  ELSE [err |-> FALSE, Memory |-> m.val, Time |-> t.val, Threads |-> p.val]

Verdict(err) == [err |-> err, panic |-> FALSE]

\* Mutant: the digest is recomputed with the default settings.
VerifyPassword_DefaultSettings(password, key) ==
  LET decodedKey == Split(key, "$")
      salt == DecodeBase64String(decodedKey[5])
      hash == DecodeBase64String(decodedKey[6])
      control == IDKey(Bytes(password), salt.bytes,
                       ArgonTime, ArgonMemory, ArgonThreads, ArgonKeyLen)
  IN
  IF password = <<>> \/ key = <<>> \/ Len(decodedKey) # 6 THEN Verdict(EINVALID)
  ELSE IF ScanVersion(decodedKey[3]).err THEN Verdict(ErrScan)
  ELSE IF ScanVersion(decodedKey[3]).val # ArgonVersion THEN Verdict(EINVALID)
  ELSE IF ScanSettings(decodedKey[4]).err THEN Verdict(ErrScan)
  ELSE IF salt.err \/ hash.err THEN Verdict(ErrCorruptInput)
  ELSE IF ConstantTimeCompare(hash.bytes, control.key) = 1 THEN Verdict(OK)
  ELSE Verdict(EINVALID)

\* AuthService.VerifyPassword: the error returned (OK for nil), or a panic
\* of argon2.IDKey.
VerifyPassword(password, key) ==
  LET decodedKey == Split(key, "$")
      version == ScanVersion(decodedKey[3])
      settings == ScanSettings(decodedKey[4])
      salt == DecodeBase64String(decodedKey[5])
      hash == DecodeBase64String(decodedKey[6])
      KeyLen == Len(hash.bytes)
      control == IDKey(Bytes(password), salt.bytes, settings.Time, settings.Memory, settings.Threads, KeyLen)
  IN
  IF password = <<>> THEN Verdict(EINVALID)
  ELSE IF key = <<>> THEN Verdict(EINVALID)
  ELSE IF Len(decodedKey) # 6 THEN Verdict(EINVALID)
  ELSE IF version.err THEN Verdict(ErrScan)
  ELSE IF version.val # ArgonVersion THEN Verdict(EINVALID)
  ELSE IF settings.err THEN Verdict(ErrScan)
  ELSE IF salt.err THEN Verdict(ErrCorruptInput)
  ELSE IF hash.err THEN Verdict(ErrCorruptInput)
  ELSE IF control.panic THEN [err |-> EINTERNAL, panic |-> TRUE]
  ELSE IF ConstantTimeCompare(hash.bytes, control.key) = 1 THEN Verdict(OK)
  ELSE Verdict(EINVALID)

\* ------------------------------------------------------------ user model
Lower(c) == CASE c = "A" -> "a" [] OTHER -> c
\* strings.ToLower
ToLower(s) == [i \in 1..Len(s) |-> Lower(s[i])]

\* User.Validate: the error code, OK for nil.
UserValidate(u) ==
  IF u.Username = <<>> THEN EINVALID
  ELSE IF Len(u.Username) > MaxUsernameLen THEN EINVALID
  ELSE IF u.Password = <<>> THEN EINVALID
  ELSE IF Len(u.Password) < MinPasswordLen THEN EINVALID
  ELSE OK

\* Mutant: the password is stored as it came.
hashPassword_Raw(password, salt) == [err |-> OK, key |-> password]

\* hashPassword with the salt NewSalt drew; main wires db.AuthService.
hashPassword(password, salt) == HashPassword(password, salt)

\* A row of the users table as findUsers scans it into a User: the SELECT
\* does not read is_demo, so IsDemo keeps its zero value.
ScanUser(row) ==
  [isNil |-> FALSE, ID |-> row.id, Username |-> row.username,
   Password |-> row.password, IsAdmin |-> row.is_admin, IsDemo |-> FALSE,
   removed |-> row.removed]

\* SELECT ... FROM users WHERE <filter> AND removed_at = 0 ORDER BY created_at
UserMatches(row, filter) ==
  /\ IsNilPtr(filter.ID) \/ row.id = filter.ID.val
  /\ IsNilPtr(filter.Username) \/ row.username = filter.Username.val
  /\ ~row.removed

\* findUsers: rows are the matching users; queries counts the SQL
\* statements issued.
findUsers(ctx, tbl, filter) ==
  IF CanFindUser(ctx, filter) = FALSE
  THEN [err |-> EUNAUTHORIZED, rows |-> <<>>, queries |-> 0]
  ELSE [err |-> OK,
        rows |-> SelectSeq([i \in 1..Len(tbl) |-> ScanUser(tbl[i])],
                           LAMBDA u : \E i \in 1..Len(tbl) :
                              tbl[i].id = u.ID /\ UserMatches(tbl[i], filter)),
        queries |-> 1]

UserFilter(id, username) == [ID |-> id, Username |-> username]

\* Shared tail of findUserByID and findUserByUsername (Limit: 1, users[0]).
FirstUser(r) ==
  IF r.err # OK THEN [err |-> r.err, user |-> NilUser, queries |-> r.queries]
  ELSE IF Len(r.rows) = 0 THEN [err |-> ENOTFOUND, user |-> NilUser, queries |-> r.queries]
  ELSE [err |-> OK, user |-> r.rows[1], queries |-> r.queries]

findUserByID(ctx, tbl, id) ==
  FirstUser(findUsers(ctx, tbl, UserFilter(PtrTo("findUserByID.id", id), NilPtr)))

\* users.username is UNIQUE: an INSERT or UPDATE that repeats a name fails.
UsernameTaken(tbl, username, exceptID) ==
  \E i \in 1..Len(tbl) : tbl[i].username = username /\ tbl[i].id # exceptID

\* Outcome of a mutating helper: error code, the table after the
\* transaction (unchanged unless err = OK), SQL statements issued, panic.
Outcome(err, tbl, queries) == [err |-> err, tbl |-> tbl, queries |-> queries, panic |-> FALSE]

\* tx.db.ID(): an identifier no row of the table carries yet.
NewID(prefix, n) == prefix \o ToString(n)

\* createUser
createUser(ctx, tbl, user, salt) ==
  IF UserValidate(user) # OK THEN Outcome(EINVALID, tbl, 0)
  ELSE IF CanCreateUser(ctx) = FALSE THEN Outcome(EUNAUTHORIZED, tbl, 0)
  ELSE IF hashPassword(user.Password, salt).err # OK
  THEN Outcome(hashPassword(user.Password, salt).err, tbl, 0)
  ELSE IF UsernameTaken(tbl, ToLower(user.Username), EmptyID)
  THEN Outcome(EINTERNAL, tbl, 1)
  ELSE Outcome(OK,
         Append(tbl, [id |-> NewID("u", Len(tbl) + 1),
                      username |-> ToLower(user.Username),
                      password |-> hashPassword(user.Password, salt).key,
                      is_admin |-> FALSE,
                      is_demo |-> FALSE,
                      removed |-> FALSE]),
         1)

\* The user struct after updateUser applied the update's non-nil fields.
ApplyUserUpdate(user, update) ==
  [user EXCEPT
     !.Username = IF IsNilPtr(update.Username) THEN @ ELSE update.Username.val,
     !.Password = IF IsNilPtr(update.Password) THEN @ ELSE update.Password.val,
     !.IsAdmin = IF update.IsAdmin.isNil THEN @ ELSE update.IsAdmin.val]

RowIndex(tbl, id) == CHOOSE i \in 1..Len(tbl) : tbl[i].id = id

updateUser(ctx, tbl, id, update, salt) ==
  LET f == findUserByID(ctx, tbl, id)
      c == CanUpdateUser(ctx, f.user)
      u == ApplyUserUpdate(f.user, update)
      h == hashPassword(u.Password, salt)
      pw == IF IsNilPtr(update.Password) THEN u.Password ELSE h.key
  IN
  IF f.err # OK THEN Outcome(f.err, tbl, f.queries)
  ELSE IF c.panic THEN [err |-> EINTERNAL, tbl |-> tbl, queries |-> f.queries, panic |-> TRUE]
  ELSE IF c.ret = FALSE THEN Outcome(EUNAUTHORIZED, tbl, f.queries)
  ELSE IF UserValidate(u) # OK THEN Outcome(EINVALID, tbl, f.queries)
  ELSE IF ~IsNilPtr(update.Password) /\ h.err # OK THEN Outcome(h.err, tbl, f.queries)
  ELSE IF UsernameTaken(tbl, ToLower(u.Username), id)
  THEN Outcome(EINTERNAL, tbl, f.queries + 1)
  ELSE Outcome(OK,
         [tbl EXCEPT ![RowIndex(tbl, id)] =
            [@ EXCEPT !.username = ToLower(u.Username),
                      !.password = pw,
                      !.is_admin = u.IsAdmin]],
         f.queries + 1)

\* Mutant: the row is marked removed before the predicate is asked.
removeUser_WriteFirst(ctx, tbl, id) ==
  LET f == findUserByID(ctx, tbl, id)
      c == CanUpdateUser(ctx, f.user)
      w == [tbl EXCEPT ![RowIndex(tbl, id)] = [@ EXCEPT !.removed = TRUE]]
  IN
  IF f.err # OK THEN Outcome(f.err, tbl, f.queries)
  ELSE IF c.panic THEN [err |-> EINTERNAL, tbl |-> tbl, queries |-> f.queries, panic |-> TRUE]
  ELSE IF c.ret = FALSE THEN Outcome(EUNAUTHORIZED, w, f.queries + 1)
  ELSE Outcome(OK, w, f.queries + 1)

removeUser(ctx, tbl, id) ==
  LET f == findUserByID(ctx, tbl, id)
      c == CanUpdateUser(ctx, f.user)
  IN
  IF f.err # OK THEN Outcome(f.err, tbl, f.queries)
  ELSE IF c.panic THEN [err |-> EINTERNAL, tbl |-> tbl, queries |-> f.queries, panic |-> TRUE]
  ELSE IF c.ret = FALSE THEN Outcome(EUNAUTHORIZED, tbl, f.queries)
  ELSE Outcome(OK, [tbl EXCEPT ![RowIndex(tbl, id)] = [@ EXCEPT !.removed = TRUE]],
               f.queries + 1)

\* ----------------------------------------------------- user service calls
\* *bool
NilBool == [isNil |-> TRUE, val |-> FALSE]
BoolPtr(v) == [isNil |-> FALSE, val |-> v]

UserInput(username, password, isAdmin) ==
  [Username |-> username, Password |-> password, IsAdmin |-> isAdmin]
UserInputs ==
  { UserInput(Ann, Password1, FALSE), UserInput(Bob, Password1, TRUE),
    UserInput(<<>>, Password1, FALSE), UserInput(Ann, ShortPassword, FALSE) }

UserUpdate(username, password, isAdmin) ==
  [Username |-> username, Password |-> password, IsAdmin |-> isAdmin]
NoUpdate == UserUpdate(NilPtr, NilPtr, NilBool)
UserUpdates ==
  { NoUpdate,
    UserUpdate(PtrTo("caller", Bob), NilPtr, NilBool),
    UserUpdate(NilPtr, PtrTo("caller", ShortPassword), NilBool),
    UserUpdate(NilPtr, NilPtr, BoolPtr(TRUE)),
    UserUpdate(NilPtr, NilPtr, BoolPtr(FALSE)) }

UserFilters == [ID : CallerPtrs(IDsOrEmpty), Username : {NilPtr}]

\* Fields every service call leaves in `last`.
Call(op, ctx, err, queries, changed, panic) ==
  [op |-> op, ctx |-> ctx, err |-> err, queries |-> queries,
   changed |-> changed, panic |-> panic]

CreateUserCall(ctx, user, salt) ==
  LET r == createUser(ctx, users, user, salt) IN
  /\ Len(users) < MaxUsers
  /\ users' = r.tbl
  /\ UNCHANGED <<req, resources, sessionStore>>
  /\ last' = Call("CreateUser", ctx, r.err, r.queries, r.tbl # users, r.panic) @@
               [input |-> user]

UpdateUserCall(ctx, id, update, salt) ==
  LET r == updateUser(ctx, users, id, update, salt) IN
  /\ users' = r.tbl
  /\ UNCHANGED <<req, resources, sessionStore>>
  /\ last' = Call("UpdateUser", ctx, r.err, r.queries, r.tbl # users, r.panic) @@
               [id |-> id, update |-> update]

RemoveUserCall(ctx, id) ==
  LET r == removeUser(ctx, users, id) IN
  /\ users' = r.tbl
  /\ UNCHANGED <<req, resources, sessionStore>>
  /\ last' = Call("RemoveUser", ctx, r.err, r.queries, r.tbl # users, r.panic) @@
               [id |-> id]

FindUserByIDCall(ctx, id) ==
  LET r == findUserByID(ctx, users, id) IN
  /\ last' = Call("FindUserByID", ctx, r.err, r.queries, FALSE, FALSE) @@
               [id |-> id, user |-> r.user]
  /\ UNCHANGED <<req, users, resources, sessionStore>>

FindUsersCall(ctx, filter) ==
  LET r == findUsers(ctx, users, filter) IN
  /\ last' = Call("FindUsers", ctx, r.err, r.queries, FALSE, FALSE) @@
               [filter |-> filter, rows |-> r.rows]
  /\ UNCHANGED <<req, users, resources, sessionStore>>

CreateUser == \E ctx \in Contexts, user \in UserInputs : CreateUserCall(ctx, user, SaltA)
UpdateUser ==
  \E ctx \in Contexts, id \in IDsOrEmpty, update \in UserUpdates :
    UpdateUserCall(ctx, id, update, SaltA)
RemoveUser == \E ctx \in Contexts, id \in IDsOrEmpty : RemoveUserCall(ctx, id)
FindUserByID == \E ctx \in Contexts, id \in IDsOrEmpty : FindUserByIDCall(ctx, id)
FindUsers == \E ctx \in Contexts, filter \in UserFilters : FindUsersCall(ctx, filter)

\* Direct evaluations of the user predicates.
EvalCanFindUser ==
  \E ctx \in Contexts, filter \in UserFilters :
    /\ last' = [op |-> "CanFindUser", ctx |-> ctx, filter |-> filter,
                ret |-> CanFindUser(ctx, filter), panic |-> FALSE]
    /\ UNCHANGED <<req, users, resources, sessionStore>>

EvalCanCreateUser ==
  \E ctx \in Contexts :
    /\ last' = [op |-> "CanCreateUser", ctx |-> ctx,
                ret |-> CanCreateUser(ctx), panic |-> FALSE]
    /\ UNCHANGED <<req, users, resources, sessionStore>>

EvalCanUpdateUser ==
  \E ctx \in Contexts, target \in CtxUsers :
    /\ last' = [op |-> "CanUpdateUser", ctx |-> ctx, target |-> target,
                ret |-> CanUpdateUser(ctx, target).ret,
                panic |-> CanUpdateUser(ctx, target).panic]
    /\ UNCHANGED <<req, users, resources, sessionStore>>

ResourceIndex(tbl, id) == CHOOSE i \in 1..Len(tbl) : tbl[i].ID = id

\* ------------------------------------------------------------ files
NilFile == [isNil |-> TRUE, ID |-> EmptyID, UserID |-> EmptyID, Name |-> <<>>,
            Type |-> <<>>, Path |-> <<>>, Checksum |-> <<>>, removed |-> FALSE]
File(userID, name, type, path, checksum) ==
  [isNil |-> FALSE, ID |-> EmptyID, UserID |-> userID, Name |-> name,
   Type |-> type, Path |-> path, Checksum |-> checksum, removed |-> FALSE]
FileFilter(id, userID) == [ID |-> id, UserID |-> userID, Type |-> NilPtr]

\* File.Validate
FileValidate(b) ==
  IF b.UserID = EmptyID THEN EINVALID
  ELSE IF b.Name = <<>> THEN EINVALID
  ELSE IF b.Type = <<>> THEN EINVALID
  ELSE IF b.Path = <<>> THEN EINVALID
  ELSE IF b.Checksum = <<>> THEN EINVALID
  ELSE OK

\* Mutant: the owner constraint of the filter is not looked at.
CanFindFile_AnyFilter(ctx, filter) == UserIDFromContext(ctx) # EmptyID

\* filter.UserID == &id compares the filter's pointer with the address of
\* the local variable id.
CanFindFile(ctx, filter) ==
  LET id == UserIDFromContext(ctx) IN
  id # EmptyID /\ PtrEq(filter.UserID, PtrTo("CanFindFile.id", id))

\* Mutant: the demo flag is not looked at.
CanUpdateFile_DemoAllowed(ctx, file) ==
  UserIDFromContext(ctx) # EmptyID /\ file.UserID = UserIDFromContext(ctx)

CanUpdateFile(ctx, file) ==
  IF ~UserFromContext(ctx).isNil /\ UserFromContext(ctx).IsDemo
  THEN FALSE
  ELSE LET id == UserIDFromContext(ctx) IN id # EmptyID /\ file.UserID = id

FileMatches(row, filter) ==
  /\ IsNilPtr(filter.ID) \/ row.ID = filter.ID.val
  /\ IsNilPtr(filter.UserID) \/ row.UserID = filter.UserID.val
  /\ IsNilPtr(filter.Type) \/ row.Type = filter.Type.val
  /\ ~row.removed

findFiles(ctx, tbl, filter) ==
  IF CanFindFile(ctx, filter) = FALSE
  THEN [err |-> EUNAUTHORIZED, rows |-> <<>>, queries |-> 0]
  ELSE [err |-> OK,
        rows |-> SelectSeq(tbl, LAMBDA row : FileMatches(row, filter)),
        queries |-> 1]

findFileByID(ctx, tbl, id) ==
  LET r == findFiles(ctx, tbl, FileFilter(PtrTo("findFileByID.id", id), NilPtr)) IN
  IF r.err # OK THEN [err |-> r.err, row |-> NilFile, queries |-> r.queries]
  ELSE IF Len(r.rows) = 0 THEN [err |-> ENOTFOUND, row |-> NilFile, queries |-> r.queries]
  ELSE [err |-> OK, row |-> r.rows[1], queries |-> r.queries]

createFile(ctx, tbl, file) ==
  IF FileValidate(file) # OK THEN Outcome(EINVALID, tbl, 0)
  ELSE IF CanUpdateFile(ctx, file) = FALSE THEN Outcome(EUNAUTHORIZED, tbl, 0)
  ELSE Outcome(OK,
         Append(tbl, [file EXCEPT !.ID = NewID("f", Len(tbl) + 1), !.removed = FALSE]),
         1)

ApplyFileUpdate(file, update) ==
  [file EXCEPT
     !.Name = IF IsNilPtr(update.Name) THEN @ ELSE update.Name.val,
     !.Type = IF IsNilPtr(update.Type) THEN @ ELSE update.Type.val,
     !.Path = IF IsNilPtr(update.Path) THEN @ ELSE update.Path.val,
     !.Checksum = IF IsNilPtr(update.Checksum) THEN @ ELSE update.Checksum.val]

updateFile(ctx, tbl, id, update) ==
  LET f == findFileByID(ctx, tbl, id)
      u == ApplyFileUpdate(f.row, update)
  IN
  IF f.err # OK THEN Outcome(f.err, tbl, f.queries)
  ELSE IF CanUpdateFile(ctx, f.row) = FALSE THEN Outcome(EUNAUTHORIZED, tbl, f.queries)
  ELSE IF FileValidate(u) # OK THEN Outcome(EINVALID, tbl, f.queries)
  ELSE Outcome(OK, [tbl EXCEPT ![ResourceIndex(tbl, id)] = u], f.queries + 1)

removeFile(ctx, tbl, id) ==
  LET f == findFileByID(ctx, tbl, id) IN
  IF f.err # OK THEN Outcome(f.err, tbl, f.queries)
  ELSE IF CanUpdateFile(ctx, f.row) = FALSE THEN Outcome(EUNAUTHORIZED, tbl, f.queries)
  ELSE Outcome(OK, [tbl EXCEPT ![ResourceIndex(tbl, id)] = [@ EXCEPT !.removed = TRUE]],
               f.queries + 1)

\* ------------------------------------------------------------ tags
NilTag == [isNil |-> TRUE, ID |-> EmptyID, UserID |-> EmptyID, Name |-> <<>>,
           removed |-> FALSE]
Tag(userID, name) ==
  [isNil |-> FALSE, ID |-> EmptyID, UserID |-> userID, Name |-> name, removed |-> FALSE]
TagFilter(id, userID) == [ID |-> id, UserID |-> userID]

\* Tag.Validate
TagValidate(t) ==
  IF t.UserID = EmptyID THEN EINVALID
  ELSE IF t.Name = <<>> THEN EINVALID
  ELSE IF Len(t.Name) > MaxTagNameLen THEN EINVALID
  ELSE OK

\* Mutant: the owner constraint of the filter is not looked at.
CanFindTag_AnyFilter(ctx, filter) == UserIDFromContext(ctx) # EmptyID

\* filter.UserID == &id compares the filter's pointer with the address of
\* the local variable id.
CanFindTag(ctx, filter) ==
  LET id == UserIDFromContext(ctx) IN
  id # EmptyID /\ PtrEq(filter.UserID, PtrTo("CanFindTag.id", id))

\* Mutant: the demo flag is not looked at.
CanUpdateTag_DemoAllowed(ctx, tag) ==
  UserIDFromContext(ctx) # EmptyID /\ tag.UserID = UserIDFromContext(ctx)

CanUpdateTag(ctx, tag) ==
  IF ~UserFromContext(ctx).isNil /\ UserFromContext(ctx).IsDemo
  THEN FALSE
  ELSE LET id == UserIDFromContext(ctx) IN id # EmptyID /\ tag.UserID = id

TagMatches(row, filter) ==
  /\ IsNilPtr(filter.ID) \/ row.ID = filter.ID.val
  /\ IsNilPtr(filter.UserID) \/ row.UserID = filter.UserID.val
  /\ ~row.removed

\* Mutant: the SELECT is issued without asking CanFindTag.
findTags_NoPredicate(ctx, tbl, filter) ==
  [err |-> OK, rows |-> SelectSeq(tbl, LAMBDA row : TagMatches(row, filter)), queries |-> 1]

findTags(ctx, tbl, filter) ==
  IF CanFindTag(ctx, filter) = FALSE
  THEN [err |-> EUNAUTHORIZED, rows |-> <<>>, queries |-> 0]
  ELSE [err |-> OK,
        rows |-> SelectSeq(tbl, LAMBDA row : TagMatches(row, filter)),
        queries |-> 1]

findTagByID(ctx, tbl, id) ==
  LET r == findTags(ctx, tbl, TagFilter(PtrTo("findTagByID.id", id), NilPtr)) IN
  IF r.err # OK THEN [err |-> r.err, row |-> NilTag, queries |-> r.queries]
  ELSE IF Len(r.rows) = 0 THEN [err |-> ENOTFOUND, row |-> NilTag, queries |-> r.queries]
  ELSE [err |-> OK, row |-> r.rows[1], queries |-> r.queries]

createTag(ctx, tbl, tag) ==
  IF TagValidate(tag) # OK THEN Outcome(EINVALID, tbl, 0)
  ELSE IF CanUpdateTag(ctx, tag) = FALSE THEN Outcome(EUNAUTHORIZED, tbl, 0)
  ELSE Outcome(OK,
         Append(tbl, [tag EXCEPT !.ID = NewID("t", Len(tbl) + 1), !.removed = FALSE]),
         1)

ApplyTagUpdate(tag, update) ==
  [tag EXCEPT !.Name = IF IsNilPtr(update.Name) THEN @ ELSE update.Name.val]

updateTag(ctx, tbl, id, update) ==
  LET f == findTagByID(ctx, tbl, id)
      u == ApplyTagUpdate(f.row, update)
  IN
  IF f.err # OK THEN Outcome(f.err, tbl, f.queries)
  ELSE IF CanUpdateTag(ctx, f.row) = FALSE THEN Outcome(EUNAUTHORIZED, tbl, f.queries)
  ELSE IF TagValidate(u) # OK THEN Outcome(EINVALID, tbl, f.queries)
  ELSE Outcome(EINTERNAL, tbl, f.queries + 1)  \* "SET name = ?, WHERE": a syntax error

removeTag(ctx, tbl, id) ==
  LET f == findTagByID(ctx, tbl, id) IN
  IF f.err # OK THEN Outcome(f.err, tbl, f.queries)
  ELSE IF CanUpdateTag(ctx, f.row) = FALSE THEN Outcome(EUNAUTHORIZED, tbl, f.queries)
  ELSE Outcome(OK, [tbl EXCEPT ![ResourceIndex(tbl, id)] = [@ EXCEPT !.removed = TRUE]],
               f.queries + 1)

\* ------------------------------------------------------------ actors
NilActor == [isNil |-> TRUE, ID |-> EmptyID, UserID |-> EmptyID, Name |-> <<>>,
           removed |-> FALSE]
Actor(userID, name) ==
  [isNil |-> FALSE, ID |-> EmptyID, UserID |-> userID, Name |-> name, removed |-> FALSE]
ActorFilter(id, userID) == [ID |-> id, UserID |-> userID]

\* Actor.Validate
ActorValidate(t) ==
  IF t.UserID = EmptyID THEN EINVALID
  ELSE IF t.Name = <<>> THEN EINVALID
  ELSE IF Len(t.Name) > MaxActorNameLen THEN EINVALID
  ELSE OK

\* Mutant: the owner constraint of the filter is not looked at.
CanFindActor_AnyFilter(ctx, filter) == UserIDFromContext(ctx) # EmptyID

\* filter.UserID == &id compares the filter's pointer with the address of
\* the local variable id.
CanFindActor(ctx, filter) ==
  LET id == UserIDFromContext(ctx) IN
  id # EmptyID /\ PtrEq(filter.UserID, PtrTo("CanFindActor.id", id))

\* Mutant: the demo flag is not looked at.
CanUpdateActor_DemoAllowed(ctx, actor) ==
  UserIDFromContext(ctx) # EmptyID /\ actor.UserID = UserIDFromContext(ctx)

CanUpdateActor(ctx, actor) ==
  IF ~UserFromContext(ctx).isNil /\ UserFromContext(ctx).IsDemo
  THEN FALSE
  ELSE LET id == UserIDFromContext(ctx) IN id # EmptyID /\ actor.UserID = id

ActorMatches(row, filter) ==
  /\ IsNilPtr(filter.ID) \/ row.ID = filter.ID.val
  /\ IsNilPtr(filter.UserID) \/ row.UserID = filter.UserID.val
  /\ ~row.removed

findActors(ctx, tbl, filter) ==
  IF CanFindActor(ctx, filter) = FALSE
  THEN [err |-> EUNAUTHORIZED, rows |-> <<>>, queries |-> 0]
  ELSE [err |-> OK,
        rows |-> SelectSeq(tbl, LAMBDA row : ActorMatches(row, filter)),
        queries |-> 1]

findActorByID(ctx, tbl, id) ==
  LET r == findActors(ctx, tbl, ActorFilter(PtrTo("findActorByID.id", id), NilPtr)) IN
  IF r.err # OK THEN [err |-> r.err, row |-> NilActor, queries |-> r.queries]
  ELSE IF Len(r.rows) = 0 THEN [err |-> ENOTFOUND, row |-> NilActor, queries |-> r.queries]
  ELSE [err |-> OK, row |-> r.rows[1], queries |-> r.queries]

createActor(ctx, tbl, actor) ==
  IF ActorValidate(actor) # OK THEN Outcome(EINVALID, tbl, 0)
  ELSE IF CanUpdateActor(ctx, actor) = FALSE THEN Outcome(EUNAUTHORIZED, tbl, 0)
  ELSE Outcome(OK,
         Append(tbl, [actor EXCEPT !.ID = NewID("a", Len(tbl) + 1), !.removed = FALSE]),
         1)

ApplyActorUpdate(actor, update) ==
  [actor EXCEPT !.Name = IF IsNilPtr(update.Name) THEN @ ELSE update.Name.val]

updateActor(ctx, tbl, id, update) ==
  LET f == findActorByID(ctx, tbl, id)
      u == ApplyActorUpdate(f.row, update)
  IN
  IF f.err # OK THEN Outcome(f.err, tbl, f.queries)
  ELSE IF CanUpdateActor(ctx, f.row) = FALSE THEN Outcome(EUNAUTHORIZED, tbl, f.queries)
  ELSE IF ActorValidate(u) # OK THEN Outcome(EINVALID, tbl, f.queries)
  ELSE Outcome(OK, [tbl EXCEPT ![ResourceIndex(tbl, id)] = u], f.queries + 1)

removeActor(ctx, tbl, id) ==
  LET f == findActorByID(ctx, tbl, id) IN
  IF f.err # OK THEN Outcome(f.err, tbl, f.queries)
  ELSE IF CanUpdateActor(ctx, f.row) = FALSE THEN Outcome(EUNAUTHORIZED, tbl, f.queries)
  ELSE Outcome(OK, [tbl EXCEPT ![ResourceIndex(tbl, id)] = [@ EXCEPT !.removed = TRUE]],
               f.queries + 1)

\* -------------------------------------------------- resource service calls
ValidName == <<"n">>
FileInputs ==
  { File(u, ValidName, <<"t">>, <<"p">>, c) : u \in IDsOrEmpty, c \in {<<"c">>, <<>>} }
TagInputs == { Tag(u, n) : u \in IDsOrEmpty, n \in {ValidName, <<>>} }
ActorInputs == { Actor(u, n) : u \in IDsOrEmpty, n \in {ValidName, <<>>} }
FileFilters == { FileFilter(NilPtr, p) : p \in CallerPtrs(IDsOrEmpty) }
TagFilters == { TagFilter(NilPtr, p) : p \in CallerPtrs(IDsOrEmpty) }
ActorFilters == { ActorFilter(NilPtr, p) : p \in CallerPtrs(IDsOrEmpty) }
FileUpdates ==
  { [Name |-> p, Type |-> NilPtr, Path |-> NilPtr, Checksum |-> NilPtr] :
      p \in CallerPtrs({<<"m">>}) }
NameUpdates == { [Name |-> p] : p \in CallerPtrs({<<"m">>}) }
ResourceIDs(prefix) == {EmptyID, NewID(prefix, 1)}
ResourceRows == Len(files) + Len(tags) + Len(actors)

FindFiles ==
  \E ctx \in Contexts, filter \in FileFilters :
    LET r == findFiles(ctx, files, filter) IN
    /\ last' = Call("FindFiles", ctx, r.err, r.queries, FALSE, FALSE) @@
                 [kind |-> "file", filter |-> filter, rows |-> r.rows]
    /\ UNCHANGED <<req, users, resources, sessionStore>>

FindFileByID ==
  \E ctx \in Contexts, id \in ResourceIDs("f") :
    LET r == findFileByID(ctx, files, id) IN
    /\ last' = Call("FindFileByID", ctx, r.err, r.queries, FALSE, FALSE) @@
                 [kind |-> "file", id |-> id, row |-> r.row]
    /\ UNCHANGED <<req, users, resources, sessionStore>>

CreateFile ==
  \E ctx \in Contexts, file \in FileInputs :
    LET r == createFile(ctx, files, file) IN
    /\ ResourceRows < MaxRows
    /\ files' = r.tbl
    /\ last' = Call("CreateFile", ctx, r.err, r.queries, r.tbl # files, FALSE) @@
                 [kind |-> "file", mutation |-> "create", input |-> file,
                  valid |-> FileValidate(file) = OK]
    /\ UNCHANGED <<req, users, tags, actors, sessionStore>>

UpdateFile ==
  \E ctx \in Contexts, id \in ResourceIDs("f"), update \in FileUpdates :
    LET r == updateFile(ctx, files, id, update) IN
    /\ files' = r.tbl
    /\ last' = Call("UpdateFile", ctx, r.err, r.queries, r.tbl # files, FALSE) @@
                 [kind |-> "file", mutation |-> "update", id |-> id, update |-> update]
    /\ UNCHANGED <<req, users, tags, actors, sessionStore>>

RemoveFile ==
  \E ctx \in Contexts, id \in ResourceIDs("f") :
    LET r == removeFile(ctx, files, id) IN
    /\ files' = r.tbl
    /\ last' = Call("RemoveFile", ctx, r.err, r.queries, r.tbl # files, FALSE) @@
                 [kind |-> "file", mutation |-> "remove", id |-> id]
    /\ UNCHANGED <<req, users, tags, actors, sessionStore>>

\* Direct evaluation of CanUpdateFile.
EvalCanUpdateFile ==
  \E ctx \in Contexts, file \in FileInputs :
    /\ last' = [op |-> "CanUpdateFile", kind |-> "file", ctx |-> ctx, target |-> file,
                ret |-> CanUpdateFile(ctx, file), panic |-> FALSE]
    /\ UNCHANGED <<req, users, resources, sessionStore>>

FindTags ==
  \E ctx \in Contexts, filter \in TagFilters :
    LET r == findTags(ctx, tags, filter) IN
    /\ last' = Call("FindTags", ctx, r.err, r.queries, FALSE, FALSE) @@
                 [kind |-> "tag", filter |-> filter, rows |-> r.rows]
    /\ UNCHANGED <<req, users, resources, sessionStore>>

FindTagByID ==
  \E ctx \in Contexts, id \in ResourceIDs("t") :
    LET r == findTagByID(ctx, tags, id) IN
    /\ last' = Call("FindTagByID", ctx, r.err, r.queries, FALSE, FALSE) @@
                 [kind |-> "tag", id |-> id, row |-> r.row]
    /\ UNCHANGED <<req, users, resources, sessionStore>>

CreateTag ==
  \E ctx \in Contexts, tag \in TagInputs :
    LET r == createTag(ctx, tags, tag) IN
    /\ ResourceRows < MaxRows
    /\ tags' = r.tbl
    /\ last' = Call("CreateTag", ctx, r.err, r.queries, r.tbl # tags, FALSE) @@
                 [kind |-> "tag", mutation |-> "create", input |-> tag,
                  valid |-> TagValidate(tag) = OK]
    /\ UNCHANGED <<req, users, files, actors, sessionStore>>

UpdateTag ==
  \E ctx \in Contexts, id \in ResourceIDs("t"), update \in NameUpdates :
    LET r == updateTag(ctx, tags, id, update) IN
    /\ tags' = r.tbl
    /\ last' = Call("UpdateTag", ctx, r.err, r.queries, r.tbl # tags, FALSE) @@
                 [kind |-> "tag", mutation |-> "update", id |-> id, update |-> update]
    /\ UNCHANGED <<req, users, files, actors, sessionStore>>

RemoveTag ==
  \E ctx \in Contexts, id \in ResourceIDs("t") :
    LET r == removeTag(ctx, tags, id) IN
    /\ tags' = r.tbl
    /\ last' = Call("RemoveTag", ctx, r.err, r.queries, r.tbl # tags, FALSE) @@
                 [kind |-> "tag", mutation |-> "remove", id |-> id]
    /\ UNCHANGED <<req, users, files, actors, sessionStore>>

\* Direct evaluation of CanUpdateTag.
EvalCanUpdateTag ==
  \E ctx \in Contexts, tag \in TagInputs :
    /\ last' = [op |-> "CanUpdateTag", kind |-> "tag", ctx |-> ctx, target |-> tag,
                ret |-> CanUpdateTag(ctx, tag), panic |-> FALSE]
    /\ UNCHANGED <<req, users, resources, sessionStore>>

FindActors ==
  \E ctx \in Contexts, filter \in ActorFilters :
    LET r == findActors(ctx, actors, filter) IN
    /\ last' = Call("FindActors", ctx, r.err, r.queries, FALSE, FALSE) @@
                 [kind |-> "actor", filter |-> filter, rows |-> r.rows]
    /\ UNCHANGED <<req, users, resources, sessionStore>>

FindActorByID ==
  \E ctx \in Contexts, id \in ResourceIDs("a") :
    LET r == findActorByID(ctx, actors, id) IN
    /\ last' = Call("FindActorByID", ctx, r.err, r.queries, FALSE, FALSE) @@
                 [kind |-> "actor", id |-> id, row |-> r.row]
    /\ UNCHANGED <<req, users, resources, sessionStore>>

CreateActor ==
  \E ctx \in Contexts, actor \in ActorInputs :
    LET r == createActor(ctx, actors, actor) IN
    /\ ResourceRows < MaxRows
    /\ actors' = r.tbl
    /\ last' = Call("CreateActor", ctx, r.err, r.queries, r.tbl # actors, FALSE) @@
                 [kind |-> "actor", mutation |-> "create", input |-> actor,
                  valid |-> ActorValidate(actor) = OK]
    /\ UNCHANGED <<req, users, files, tags, sessionStore>>

UpdateActor ==
  \E ctx \in Contexts, id \in ResourceIDs("a"), update \in NameUpdates :
    LET r == updateActor(ctx, actors, id, update) IN
    /\ actors' = r.tbl
    /\ last' = Call("UpdateActor", ctx, r.err, r.queries, r.tbl # actors, FALSE) @@
                 [kind |-> "actor", mutation |-> "update", id |-> id, update |-> update]
    /\ UNCHANGED <<req, users, files, tags, sessionStore>>

RemoveActor ==
  \E ctx \in Contexts, id \in ResourceIDs("a") :
    LET r == removeActor(ctx, actors, id) IN
    /\ actors' = r.tbl
    /\ last' = Call("RemoveActor", ctx, r.err, r.queries, r.tbl # actors, FALSE) @@
                 [kind |-> "actor", mutation |-> "remove", id |-> id]
    /\ UNCHANGED <<req, users, files, tags, sessionStore>>

\* Direct evaluation of CanUpdateActor.
EvalCanUpdateActor ==
  \E ctx \in Contexts, actor \in ActorInputs :
    /\ last' = [op |-> "CanUpdateActor", kind |-> "actor", ctx |-> ctx, target |-> actor,
                ret |-> CanUpdateActor(ctx, actor), panic |-> FALSE]
    /\ UNCHANGED <<req, users, resources, sessionStore>>

\* ---------------------------------------------------------------- sessions
Token1 == Repeat("t", MinTokenLen)
Token2 == Repeat("x", MinTokenLen)
ShortToken == Repeat("t", MinTokenLen - 1)

Session(userID, token) == [isNil |-> FALSE, ID |-> EmptyID, UserID |-> userID, Token |-> token]
SessionFilter(id, userID, token) == [ID |-> id, UserID |-> userID, Token |-> token]

\* Session.Validate
SessionValidate(session) ==
  IF session.UserID = EmptyID THEN EINVALID
  ELSE IF session.Token = <<>> THEN EINVALID
  ELSE IF Len(session.Token) < MinTokenLen THEN EINVALID
  ELSE OK

\* Mutant: any logged-in user may delete any session.
CanDeleteSession_AnyUser(ctx, session) == UserIDFromContext(ctx) # EmptyID

CanDeleteSession(ctx, session) ==
  LET id == UserIDFromContext(ctx) IN
  IF id # EmptyID /\ session.UserID = id THEN TRUE ELSE FALSE

SessionMatches(row, filter) ==
  /\ IsNilPtr(filter.ID) \/ row.ID = filter.ID.val
  /\ IsNilPtr(filter.UserID) \/ row.UserID = filter.UserID.val
  /\ IsNilPtr(filter.Token) \/ row.Token = filter.Token.val

\* findSessions evaluates no predicate.
findSessions(ctx, tbl, filter) ==
  [err |-> OK, rows |-> SelectSeq(tbl, LAMBDA row : SessionMatches(row, filter)),
   queries |-> 1]

FirstSession(r) ==
  IF r.err # OK THEN [err |-> r.err, session |-> NilSession, queries |-> r.queries]
  ELSE IF Len(r.rows) = 0
  THEN [err |-> ENOTFOUND, session |-> NilSession, queries |-> r.queries]
  ELSE [err |-> OK, session |-> r.rows[1], queries |-> r.queries]

findSessionByID(ctx, tbl, id) ==
  FirstSession(findSessions(ctx, tbl,
                 SessionFilter(PtrTo("findSessionByID.id", id), NilPtr, NilPtr)))

findSessionForToken(ctx, tbl, id, token) ==
  FirstSession(findSessions(ctx, tbl,
                 SessionFilter(PtrTo("findSessionForToken.id", id), NilPtr,
                               [addr |-> "findSessionForToken.token", val |-> token])))

\* createSession; n sessions were created before.
createSession(ctx, tbl, session, n) ==
  IF SessionValidate(session) # OK THEN Outcome(EINVALID, tbl, 0)
  ELSE Outcome(OK, Append(tbl, [session EXCEPT !.ID = NewID("s", n + 1)]), 1)

\* DELETE FROM sessions WHERE id = ?
DeleteRow(tbl, id) == SelectSeq(tbl, LAMBDA row : row.ID # id)

deleteSession(ctx, tbl, id) ==
  LET f == findSessionByID(ctx, tbl, id) IN
  IF f.err # OK THEN Outcome(f.err, tbl, f.queries)
  ELSE IF CanDeleteSession(ctx, f.session) = FALSE
  THEN Outcome(EUNAUTHORIZED, tbl, f.queries)
  ELSE Outcome(OK, DeleteRow(tbl, id), f.queries + 1)

\* --------------------------------------------------- session service calls
SessionInputs == { Session(u, t) : u \in IDsOrEmpty, t \in {Token1, ShortToken} }
SessionIDs == {EmptyID} \cup { NewID("s", n) : n \in 1..MaxSessions }

CreateSession ==
  \E ctx \in Contexts, session \in SessionInputs :
    LET r == createSession(ctx, sessions, session, created) IN
    /\ created < MaxSessions
    /\ sessions' = r.tbl
    /\ created' = IF r.err = OK THEN created + 1 ELSE created
    /\ last' = Call("CreateSession", ctx, r.err, r.queries, r.tbl # sessions, FALSE) @@
                 [input |-> session]
    /\ UNCHANGED <<req, users, resources>>

DeleteSession ==
  \E ctx \in Contexts, id \in SessionIDs :
    LET r == deleteSession(ctx, sessions, id) IN
    /\ sessions' = r.tbl
    /\ last' = Call("DeleteSession", ctx, r.err, r.queries, r.tbl # sessions, FALSE) @@
                 [id |-> id, found |-> findSessionByID(ctx, sessions, id).session]
    /\ UNCHANGED <<req, users, resources, created>>

FindSessionForToken ==
  \E ctx \in Contexts, id \in SessionIDs, token \in {Token1, Token2} :
    LET r == findSessionForToken(ctx, sessions, id, token) IN
    /\ last' = Call("FindSessionForToken", ctx, r.err, r.queries, FALSE, FALSE) @@
                 [id |-> id, token |-> token, session |-> r.session]
    /\ UNCHANGED <<req, users, resources, sessionStore>>

\* Direct evaluation of CanDeleteSession.
EvalCanDeleteSession ==
  \E ctx \in Contexts, session \in SessionInputs :
    /\ last' = [op |-> "CanDeleteSession", ctx |-> ctx, target |-> session,
                ret |-> CanDeleteSession(ctx, session), panic |-> FALSE]
    /\ UNCHANGED <<req, users, resources, sessionStore>>

\* ------------------------------------------------------- HTTP middleware
\* A cookie of the request: absent (http.ErrNoCookie), or its value.
NoCookie == [present |-> FALSE, value |-> EmptyID]
Cookie(v) == [present |-> TRUE, value |-> v]

\* pc: "idle" no request; "authenticate" before the session lookup;
\* "authenticate_user" between the session and the user lookup;
\* "requireAuth" / "handler" the next handler of the chain is about to run;
\* "redirected" answered with 302 /login; "done" the route's handler ran.
\* ctx is r.Context(); session is authenticate's local variable; next counts
\* authenticate's calls of next.ServeHTTP.
Request(route, sessionCookie, tokenCookie) ==
  [pc |-> "authenticate", route |-> route,
   Session |-> sessionCookie, Token |-> tokenCookie,
   ctx |-> Background, session |-> NilSession,
   lookedUp |-> FALSE, userExisted |-> FALSE, userFound |-> FALSE,
   next |-> 0, handled |-> FALSE]
NoRequest == [Request("none", NoCookie, NoCookie) EXCEPT !.pc = "idle"]

\* NewServer: the setup routes run authenticate alone; the actor, file,
\* session, tag and user routes run authenticate, then requireAuth.
Routes == {"setup", "protected"}
AfterAuthenticate(route) == IF route = "protected" THEN "requireAuth" ELSE "handler"

SessionCookies == {NoCookie} \cup { Cookie(id) : id \in SessionIDs \ {EmptyID} }
TokenCookies == {NoCookie, Cookie(Token1), Cookie(Token2)}

\* The server accepts a request; its context carries no values yet.
Receive ==
  \E route \in Routes, sc \in SessionCookies, tc \in TokenCookies :
    /\ req.pc \in {"idle", "redirected", "done"}
    /\ req' = Request(route, sc, tc)
    /\ UNCHANGED <<users, resources, sessionStore, last>>

\* authenticate calls next.ServeHTTP(w, r) with the request as it stands.
CallNext(r) == [r EXCEPT !.pc = AfterAuthenticate(r.route), !.next = @ + 1]

\* Mutant: the session is attached as soon as it is found, before the user
\* lookup.
authenticateSession_AttachEarly(r, tbl) ==
  LET f == findSessionForToken(r.ctx, tbl, r.Session.value, r.Token.value) IN
  IF ~r.Session.present \/ ~r.Token.present THEN CallNext(r)
  ELSE IF f.err # OK \/ f.session.isNil THEN CallNext([r EXCEPT !.lookedUp = TRUE])
  ELSE [r EXCEPT !.pc = "authenticate_user", !.session = f.session, !.lookedUp = TRUE,
                 !.ctx = NewContextWithSession(r.ctx, f.session)]

\* authenticate up to and including SessionService.FindSessionForToken.
authenticateSession(r, tbl) ==
  LET f == findSessionForToken(r.ctx, tbl, r.Session.value, r.Token.value) IN
  IF ~r.Session.present THEN CallNext(r)
  ELSE IF ~r.Token.present THEN CallNext(r)
  ELSE IF f.err # OK \/ f.session.isNil THEN CallNext([r EXCEPT !.lookedUp = TRUE])
  ELSE [r EXCEPT !.pc = "authenticate_user", !.session = f.session, !.lookedUp = TRUE]

\* authenticate from UserService.FindUserByID on.
authenticateUser(r, tbl) ==
  LET f == findUserByID(r.ctx, tbl, r.session.UserID)
      existed == \E i \in 1..Len(tbl) : tbl[i].id = r.session.UserID /\ ~tbl[i].removed
      seen == [r EXCEPT !.userExisted = existed]
  IN
  IF f.err # OK \/ f.user.isNil THEN CallNext(seen)
  ELSE CallNext([seen EXCEPT
         !.userFound = TRUE,
         !.ctx = NewContextWithUser(NewContextWithSession(r.ctx, r.session), f.user)])

\* Mutant: the return after the redirect for a missing identity is left out,
\* so the request falls through to the next handler.
requireAuth_MissingReturn(r) ==
  IF UserIDFromContext(r.ctx) = EmptyID THEN [r EXCEPT !.pc = "handler"]
  ELSE IF SessionFromContext(r.ctx).isNil \/ SessionFromContext(r.ctx).ID = EmptyID
  THEN [r EXCEPT !.pc = "redirected"]
  ELSE [r EXCEPT !.pc = "handler"]

requireAuth(r) ==
  IF UserIDFromContext(r.ctx) = EmptyID THEN [r EXCEPT !.pc = "redirected"]
  ELSE IF SessionFromContext(r.ctx).isNil \/ SessionFromContext(r.ctx).ID = EmptyID
  THEN [r EXCEPT !.pc = "redirected"]
  ELSE [r EXCEPT !.pc = "handler"]

AuthenticateSession ==
  /\ req.pc = "authenticate"
  /\ req' = authenticateSession(req, sessions)
  /\ UNCHANGED <<users, resources, sessionStore, last>>

AuthenticateUser ==
  /\ req.pc = "authenticate_user"
  /\ req' = authenticateUser(req, users)
  /\ UNCHANGED <<users, resources, sessionStore, last>>

RequireAuth ==
  /\ req.pc = "requireAuth"
  /\ req' = requireAuth(req)
  /\ UNCHANGED <<users, resources, sessionStore, last>>

\* The route's own handler runs.
Handle ==
  /\ req.pc = "handler"
  /\ req' = [req EXCEPT !.pc = "done", !.handled = TRUE]
  /\ UNCHANGED <<users, resources, sessionStore, last>>

\* Service calls of other clients while the request is in flight; a call
\* that fails leaves the store as it is.
OtherCreateUser ==
  \E ctx \in Contexts, user \in UserInputs :
    /\ Len(users) < MaxUsers
    /\ users' = createUser(ctx, users, user, SaltA).tbl
    /\ UNCHANGED <<req, resources, sessionStore, last>>

OtherRemoveUser ==
  \E ctx \in Contexts, id \in IDs :
    /\ users' = removeUser(ctx, users, id).tbl
    /\ UNCHANGED <<req, resources, sessionStore, last>>

OtherCreateSession ==
  \E session \in SessionInputs :
    /\ created < MaxSessions
    /\ createSession(Background, sessions, session, created).err = OK
    /\ sessions' = createSession(Background, sessions, session, created).tbl
    /\ created' = created + 1
    /\ UNCHANGED <<req, users, resources, last>>

OtherDeleteSession ==
  \E ctx \in Contexts, id \in SessionIDs :
    /\ sessions' = deleteSession(ctx, sessions, id).tbl
    /\ UNCHANGED <<req, users, resources, created, last>>

Init ==
  /\ users = <<>>
  /\ files = <<>>
  /\ tags = <<>>
  /\ actors = <<>>
  /\ sessions = <<>>
  /\ created = 0
  /\ req = NoRequest
  /\ last = NoCall

\* The user service together with its predicates.
NextUsers ==
  \/ CreateUser
  \/ UpdateUser
  \/ RemoveUser
  \/ FindUserByID
  \/ FindUsers
  \/ EvalCanFindUser
  \/ EvalCanCreateUser
  \/ EvalCanUpdateUser

SpecUsers == Init /\ [][NextUsers]_vars

\* Filtered reads of files, tags and actors over tables the create calls fill.
NextFind ==
  \/ CreateFile \/ CreateTag \/ CreateActor
  \/ FindFiles \/ FindTags \/ FindActors
  \/ FindFileByID \/ FindTagByID \/ FindActorByID

SpecFind == Init /\ [][NextFind]_vars

\* Mutations of files, tags and actors, and their predicates.
NextMutate ==
  \/ CreateFile \/ CreateTag \/ CreateActor
  \/ UpdateFile \/ UpdateTag \/ UpdateActor
  \/ RemoveFile \/ RemoveTag \/ RemoveActor
  \/ EvalCanUpdateFile \/ EvalCanUpdateTag \/ EvalCanUpdateActor

SpecMutate == Init /\ [][NextMutate]_vars

\* The session service and its predicate.
NextSessions ==
  \/ CreateSession
  \/ DeleteSession
  \/ FindSessionForToken
  \/ EvalCanDeleteSession

SpecSessions == Init /\ [][NextSessions]_vars

\* Every call of every storage service, one at a time: a client issues a
\* call when no result is pending and then takes the result.  The stores are
\* the users table, the files, tags and actors tables, and the sessions
\* table; at most MaxStores of them hold rows at the same time.
StoresInUse ==
  (IF Len(users) > 0 THEN 1 ELSE 0) + (IF ResourceRows > 0 THEN 1 ELSE 0)
    + (IF created > 0 THEN 1 ELSE 0)

\* users.is_demo: no statement of the program writes the column; a row gets
\* is_demo = TRUE by a statement run on the database directly.
MarkDemo ==
  \E i \in 1..Len(users) :
    /\ ~users[i].is_demo
    /\ users' = [users EXCEPT ![i].is_demo = TRUE]
    /\ UNCHANGED <<req, resources, sessionStore, last>>

\* The client has taken the result of its call.
Return ==
  /\ last # NoCall
  /\ last' = NoCall
  /\ UNCHANGED <<req, users, resources, sessionStore>>

NextStorage ==
  \/ last = NoCall /\ CreateUser /\ StoresInUse' <= MaxStores
  \/ last = NoCall /\ UpdateUser
  \/ last = NoCall /\ RemoveUser
  \/ last = NoCall /\ FindUsers
  \/ last = NoCall /\ FindUserByID
  \/ last = NoCall /\ MarkDemo
  \/ last = NoCall /\ CreateFile /\ StoresInUse' <= MaxStores
  \/ last = NoCall /\ CreateTag /\ StoresInUse' <= MaxStores
  \/ last = NoCall /\ CreateActor /\ StoresInUse' <= MaxStores
  \/ last = NoCall /\ UpdateFile
  \/ last = NoCall /\ UpdateTag
  \/ last = NoCall /\ UpdateActor
  \/ last = NoCall /\ RemoveFile
  \/ last = NoCall /\ RemoveTag
  \/ last = NoCall /\ RemoveActor
  \/ last = NoCall /\ FindFiles
  \/ last = NoCall /\ FindTags
  \/ last = NoCall /\ FindActors
  \/ last = NoCall /\ FindFileByID
  \/ last = NoCall /\ FindTagByID
  \/ last = NoCall /\ FindActorByID
  \/ last = NoCall /\ CreateSession /\ StoresInUse' <= MaxStores
  \/ last = NoCall /\ DeleteSession
  \/ last = NoCall /\ FindSessionForToken
  \/ Return

SpecStorage == Init /\ [][NextStorage]_vars

\* ------------------------------------------------------------ predicates
\* Direct evaluations of the find predicates of files, tags and actors.
EvalCanFindFile ==
  \E ctx \in Contexts, filter \in FileFilters :
    /\ last' = [op |-> "CanFindFile", ctx |-> ctx, filter |-> filter,
                ret |-> CanFindFile(ctx, filter), panic |-> FALSE]
    /\ UNCHANGED <<req, users, resources, sessionStore>>

EvalCanFindTag ==
  \E ctx \in Contexts, filter \in TagFilters :
    /\ last' = [op |-> "CanFindTag", ctx |-> ctx, filter |-> filter,
                ret |-> CanFindTag(ctx, filter), panic |-> FALSE]
    /\ UNCHANGED <<req, users, resources, sessionStore>>

EvalCanFindActor ==
  \E ctx \in Contexts, filter \in ActorFilters :
    /\ last' = [op |-> "CanFindActor", ctx |-> ctx, filter |-> filter,
                ret |-> CanFindActor(ctx, filter), panic |-> FALSE]
    /\ UNCHANGED <<req, users, resources, sessionStore>>

\* Every authorization predicate, evaluated in every context.
NextPredicates ==
  \/ last = NoCall /\ EvalCanFindUser
  \/ last = NoCall /\ EvalCanCreateUser
  \/ last = NoCall /\ EvalCanUpdateUser
  \/ last = NoCall /\ EvalCanFindFile
  \/ last = NoCall /\ EvalCanFindTag
  \/ last = NoCall /\ EvalCanFindActor
  \/ last = NoCall /\ EvalCanUpdateFile
  \/ last = NoCall /\ EvalCanUpdateTag
  \/ last = NoCall /\ EvalCanUpdateActor
  \/ last = NoCall /\ EvalCanDeleteSession
  \/ Return

SpecPredicates == Init /\ [][NextPredicates]_vars

\* ------------------------------------------------------------------ setup
\* SetupService.ShouldRunSetup: findUsers with a filter that only limits the
\* result to one row; the answer is len(users) > 0.
ShouldRunSetup(ctx, tbl) ==
  LET r == findUsers(ctx, tbl, UserFilter(NilPtr, NilPtr))
      limited == IF Len(r.rows) > 1 THEN SubSeq(r.rows, 1, 1) ELSE r.rows
  IN
  IF r.err # OK THEN [ret |-> FALSE, err |-> r.err]
  ELSE [ret |-> Len(limited) > 0, err |-> OK]

ShouldRunSetupCall ==
  \E ctx \in Contexts :
    LET r == ShouldRunSetup(ctx, users) IN
    /\ last' = [op |-> "ShouldRunSetup", ctx |-> ctx, ret |-> r.ret, err |-> r.err]
    /\ UNCHANGED <<req, users, resources, sessionStore>>

NextSetup ==
  \/ last = NoCall /\ CreateUser
  \/ last = NoCall /\ RemoveUser
  \/ last = NoCall /\ ShouldRunSetupCall
  \/ Return

SpecSetup == Init /\ [][NextSetup]_vars

\* ---------------------------------------------------- stored credentials
\* User calls with the salt hashPassword draws from NewSalt, and updates
\* that carry a password User.Validate accepts.
Password2 == <<"s", "e", "c", "r", "e", "t", "2">>
CredentialUpdates ==
  { NoUpdate,
    UserUpdate(PtrTo("caller", Bob), NilPtr, NilBool),
    UserUpdate(NilPtr, PtrTo("caller", Password2), NilBool),
    UserUpdate(NilPtr, PtrTo("caller", Password1), BoolPtr(TRUE)),
    UserUpdate(NilPtr, PtrTo("caller", ShortPassword), NilBool) }

CreateUserSalted ==
  \E ctx \in Contexts, user \in UserInputs, r \in RandomSources :
    NewSalt(r).err = OK /\ CreateUserCall(ctx, user, NewSalt(r).s)

UpdateUserSalted ==
  \E ctx \in Contexts, id \in IDsOrEmpty, update \in CredentialUpdates, r \in RandomSources :
    NewSalt(r).err = OK /\ UpdateUserCall(ctx, id, update, NewSalt(r).s)

NextCredentials ==
  \/ last = NoCall /\ CreateUserSalted
  \/ last = NoCall /\ UpdateUserSalted
  \/ Return

SpecCredentials == Init /\ [][NextCredentials]_vars

\* --------------------------------------------------------- auth helpers
\* Calls of the helpers of package auth with their arguments drawn from
\* small sets.
GenerateRandomBytesCall ==
  \E n \in (0 - NegativeLens)..MaxRandomLen, r \in RandomSources :
    LET g == GenerateRandomBytes(n, r) IN
    /\ last' = [op |-> "GenerateRandomBytes", n |-> n, r |-> r,
                err |-> g.err, panic |-> g.panic, bytes |-> g.bytes]
    /\ UNCHANGED <<req, users, resources, sessionStore>>

NewTokenCall ==
  \E r \in RandomSources :
    /\ last' = [op |-> "NewToken", r |-> r, err |-> NewToken(r).err, s |-> NewToken(r).s]
    /\ UNCHANGED <<req, users, resources, sessionStore>>

NewPasswordCall ==
  \E r \in RandomSources :
    /\ last' = [op |-> "NewPassword", r |-> r, err |-> NewPassword(r).err,
                s |-> NewPassword(r).s]
    /\ UNCHANGED <<req, users, resources, sessionStore>>

NewSaltCall ==
  \E r \in RandomSources :
    /\ last' = [op |-> "NewSalt", r |-> r, err |-> NewSalt(r).err, s |-> NewSalt(r).s]
    /\ UNCHANGED <<req, users, resources, sessionStore>>

SeqsUpTo(S, n) == UNION {[1..k -> S] : k \in 0..n}
ByteInputs == SeqsUpTo({0, 1, 128, 255}, MaxCodeLen)
StringInputs == SeqsUpTo({"A", "Q", "_", "x", "=", "\n"}, MaxCodeLen)

EncodeToBase64StringCall ==
  \E b \in ByteInputs :
    /\ last' = [op |-> "EncodeToBase64String", b |-> b, s |-> EncodeToBase64String(b)]
    /\ UNCHANGED <<req, users, resources, sessionStore>>

DecodeBase64StringCall ==
  \E s \in StringInputs :
    /\ last' = [op |-> "DecodeBase64String", s |-> s,
                err |-> DecodeBase64String(s).err, b |-> DecodeBase64String(s).bytes]
    /\ UNCHANGED <<req, users, resources, sessionStore>>

NextAuth ==
  \/ last = NoCall /\ GenerateRandomBytesCall
  \/ last = NoCall /\ NewTokenCall
  \/ last = NoCall /\ NewPasswordCall
  \/ last = NoCall /\ NewSaltCall
  \/ last = NoCall /\ EncodeToBase64StringCall
  \/ last = NoCall /\ DecodeBase64StringCall
  \/ Return

SpecAuth == Init /\ [][NextAuth]_vars

\* ------------------------------------------------- password verification
\* Passwords and salts handed to the AuthService.
PasswordInputs == {<<>>, <<"p", "w">>, <<"p", "w", "1">>}
SaltInputs == {<<>>, <<"s", "a", "l", "t">>, <<"s", "a", "l", "t", "1">>}

\* Argon2 settings a key may have been built with: the defaults, a higher
\* time cost, less memory on fewer threads, a shorter digest.
DefaultSettings ==
  [Time |-> ArgonTime, Memory |-> ArgonMemory, Threads |-> ArgonThreads,
   KeyLen |-> ArgonKeyLen]
ShortKeyLen == ArgonKeyLen \div 2
SettingsInputs ==
  {DefaultSettings,
   [DefaultSettings EXCEPT !.Time = 2],
   [DefaultSettings EXCEPT !.Memory = 32768, !.Threads = 2],
   [DefaultSettings EXCEPT !.KeyLen = ShortKeyLen]}

\* The credential key of (password, salt) under the settings p, in the
\* format of HashPassword.
MakeKey(password, salt, p) ==
  FormatKey(ArgonVersion, p.Memory, p.Time, p.Threads,
            EncodeToBase64String(Bytes(salt)),
            EncodeToBase64String(
              IDKey(Bytes(password), Bytes(salt), p.Time, p.Memory, p.Threads, p.KeyLen).key))

RECURSIVE Join(_, _)
Join(segs, sep) ==
  IF Len(segs) = 0 THEN <<>>
  ELSE IF Len(segs) = 1 THEN segs[1]
  ELSE segs[1] \o <<sep>> \o Join(Tail(segs), sep)

WithSegment(key, n, seg) == Join([Split(key, "$") EXCEPT ![n] = seg], "$")

\* The encoding of b with its first byte changed.
ChangeByte(b64) ==
  LET b == DecodeBase64String(b64).bytes
  IN EncodeToBase64String([b EXCEPT ![1] = (b[1] + 1) % 256])

\* Ways a key reaches VerifyPassword other than as it was built.
Alterations ==
  {"none", "append newline", "append return", "append digit", "append dollar",
   "salt byte", "hash byte", "version", "version unparseable",
   "settings unparseable", "threads too large", "threads zero",
   "salt not base64", "hash empty", "five segments", "two segments", "empty",
   "algorithm"}

Alter(how, key) ==
  CASE how = "none" -> key
    [] how = "append newline" -> key \o <<"\n">>
    [] how = "append return" -> key \o <<"\r">>
    [] how = "append digit" -> key \o <<"1">>
    [] how = "append dollar" -> key \o <<"$">>
    [] how = "salt byte" -> WithSegment(key, 5, ChangeByte(Split(key, "$")[5]))
    [] how = "hash byte" -> WithSegment(key, 6, ChangeByte(Split(key, "$")[6]))
    [] how = "version" -> WithSegment(key, 3, <<"v", "=", "1">>)
    [] how = "version unparseable" -> WithSegment(key, 3, <<"v", "=", "x">>)
    [] how = "settings unparseable" -> WithSegment(key, 4, <<"m", "=", "x", ",", "t", "=", "1", ",", "p", "=", "4">>)
    [] how = "threads too large" -> WithSegment(key, 4, <<"m", "=", "6", "5", "5", "3", "6", ",", "t", "=", "1", ",", "p", "=", "2", "5", "6">>)
    [] how = "threads zero" -> WithSegment(key, 4, <<"m", "=", "6", "5", "5", "3", "6", ",", "t", "=", "1", ",", "p", "=", "0">>)
    [] how = "salt not base64" -> WithSegment(key, 5, <<"=">>)
    [] how = "hash empty" -> WithSegment(key, 6, <<>>)
    [] how = "five segments" -> Join(SubSeq(Split(key, "$"), 1, 5), "$")
    [] how = "two segments" -> Join(SubSeq(Split(key, "$"), 1, 3), "$")
    [] how = "empty" -> <<>>
    [] how = "algorithm" -> WithSegment(key, 2, <<"a", "r", "g", "o", "n", "2", "i">>)

\* s.HashPassword(password, salt)
HashPasswordCall ==
  \E password \in PasswordInputs, salt \in SaltInputs :
    LET r == HashPassword(password, salt) IN
    /\ last' = [op |-> "HashPassword", password |-> password, salt |-> salt,
                key |-> r.key, err |-> r.err]
    /\ UNCHANGED <<req, users, resources, sessionStore>>

\* s.VerifyPassword(password, key), the key built for (of, salt) under the
\* settings p and altered in the way how.
VerifyPasswordCall ==
  \E password \in PasswordInputs, of \in PasswordInputs \ {<<>>},
     salt \in SaltInputs \ {<<>>}, p \in SettingsInputs, how \in Alterations :
    LET key == Alter(how, MakeKey(of, salt, p))
        r == VerifyPassword(password, key)
    IN
    /\ last' = [op |-> "VerifyPassword", password |-> password, key |-> key,
                of |-> of, salt |-> salt, settings |-> p, how |-> how,
                err |-> r.err, panic |-> r.panic]
    /\ UNCHANGED <<req, users, resources, sessionStore>>

NextPassword ==
  \/ last = NoCall /\ HashPasswordCall
  \/ last = NoCall /\ VerifyPasswordCall
  \/ Return

SpecPassword == Init /\ [][NextPassword]_vars

\* Requests passing through the middleware chain while the user and session
\* stores change under them.
Next ==
  \/ Receive
  \/ AuthenticateSession
  \/ AuthenticateUser
  \/ RequireAuth
  \/ Handle
  \/ OtherCreateUser
  \/ OtherRemoveUser
  \/ OtherCreateSession
  \/ OtherDeleteSession

Spec == Init /\ [][Next]_vars

\* ------------------------------------------------------------------ claims
Acting == last.ctx.user
HasIdentity == ~Acting.isNil

\* C1 (as claimed): CanUpdateUser permits exactly self-and-not-demo or an
\* admin acting on another user; for a non-admin identity A and a target B
\* with B.ID # A.ID it returns false, and UpdateUser / RemoveUser on B
\* return EUNAUTHORIZED.
C1_CanUpdateUserOnlySelfOrAdmin ==
  /\ last.op = "CanUpdateUser" /\ HasIdentity
       /\ Acting.ID # EmptyID /\ last.target.ID # EmptyID =>
       /\ ~last.panic
       /\ last.ret = ( \/ Acting.ID = last.target.ID /\ ~Acting.IsDemo
                       \/ Acting.IsAdmin /\ Acting.ID # last.target.ID )
  /\ last.op \in {"UpdateUser", "RemoveUser"} /\ HasIdentity
       /\ ~Acting.IsAdmin /\ last.id # Acting.ID =>
       last.err = EUNAUTHORIZED

\* C8 (as claimed): CanFindUser is true exactly for an admin, or for a filter
\* whose ID is set to the acting identity's id.
C8_CanFindUserSelfOrAdmin ==
  last.op = "CanFindUser" /\ (HasIdentity => Acting.ID # EmptyID) =>
    last.ret = ( \/ HasIdentity /\ Acting.IsAdmin
                 \/ HasIdentity /\ ~IsNilPtr(last.filter.ID)
                      /\ last.filter.ID.val = Acting.ID )

\* C9 (as claimed): CreateUser by an anonymous or non-admin caller returns
\* EUNAUTHORIZED and inserts nothing.
C9_CreateUserUnauthorizedAsClaimed ==
  last.op = "CreateUser" /\ ~(HasIdentity /\ Acting.IsAdmin) =>
    last.err = EUNAUTHORIZED /\ ~last.changed

\* C9 (amended): CanCreateUser is true only for an admin identity; CreateUser
\* by an anonymous or non-admin caller inserts nothing and returns
\* EUNAUTHORIZED when the user passes Validate, EINVALID when it does not
\* (createUser validates before it authorizes).
C9_CreateUserRequiresAdmin ==
  /\ last.op = "CanCreateUser" => (last.ret => HasIdentity /\ Acting.IsAdmin)
  /\ last.op = "CreateUser" /\ ~(HasIdentity /\ Acting.IsAdmin) =>
       /\ ~last.changed
       /\ last.queries = 0
       /\ last.err = IF UserValidate(last.input) = OK THEN EUNAUTHORIZED ELSE EINVALID

C9_Witness ==
  /\ last.op = "CreateUser" /\ HasIdentity /\ ~Acting.IsAdmin
  /\ UserValidate(last.input) = OK
  /\ last.err = EUNAUTHORIZED /\ ~last.changed

FindOps == {"FindFiles", "FindTags", "FindActors"}
IsMutation == last.op \in {"CreateFile", "UpdateFile", "RemoveFile", "CreateTag", "UpdateTag",
                           "RemoveTag", "CreateActor", "UpdateActor", "RemoveActor"}
ActingID == UserIDFromContext(last.ctx)
\* Rows of the table a call on files, tags or actors works on.
TableOf(kind) == CASE kind = "file" -> files [] kind = "tag" -> tags [] OTHER -> actors

\* C5: FindFiles, FindTags and FindActors are refused with EUNAUTHORIZED, and
\* no SQL statement is issued, whenever the context has no identity (or one
\* with an empty id), the filter has no UserID, or the filter's UserID is not
\* the acting identity's id.
C5_FindRejectsForeignFilter ==
  last.op \in FindOps
    /\ ( \/ ~HasIdentity
         \/ ActingID = EmptyID
         \/ IsNilPtr(last.filter.UserID)
         \/ last.filter.UserID.val # ActingID ) =>
    last.err = EUNAUTHORIZED /\ last.queries = 0 /\ last.rows = <<>>

\* Identity A asks for the rows of B, which exist, and is refused.
C5_Witness ==
  /\ last.op \in FindOps /\ HasIdentity /\ ActingID # EmptyID
  /\ ~IsNilPtr(last.filter.UserID) /\ last.filter.UserID.val # ActingID
  /\ \E i \in 1..Len(TableOf(last.kind)) :
       TableOf(last.kind)[i].UserID = last.filter.UserID.val
  /\ last.err = EUNAUTHORIZED /\ last.queries = 0

\* C6 (as claimed): an identity with a non-empty id whose filter's UserID is
\* set to that id is not refused by FindFiles, FindTags, FindActors.
C6_FindOwnResourcesPermitted ==
  last.op \in FindOps /\ HasIdentity /\ ActingID # EmptyID
    /\ ~IsNilPtr(last.filter.UserID) /\ last.filter.UserID.val = ActingID =>
    last.err # EUNAUTHORIZED

CanUpdateOps == {"CanUpdateFile", "CanUpdateTag", "CanUpdateActor"}

\* C7 (as claimed): a demo identity that owns the resource is refused with
\* EUNAUTHORIZED by create, update and remove.
C7_DemoOwnerUnauthorizedAsClaimed ==
  IsMutation /\ HasIdentity /\ Acting.IsDemo /\ ActingID # EmptyID
    /\ (last.mutation = "create" => last.input.UserID = ActingID) =>
    last.err = EUNAUTHORIZED

\* C7 (amended): CanUpdateFile, CanUpdateTag, CanUpdateActor are true exactly
\* when the context holds an identity with a non-empty id equal to the
\* resource's UserID that is not a demo identity; a demo identity changes
\* nothing through create, update or remove, and gets EUNAUTHORIZED, except
\* that a create whose record fails Validate gets EINVALID.
C7_MutateOwnerNotDemo ==
  /\ last.op \in CanUpdateOps =>
       last.ret = ( /\ HasIdentity /\ ActingID # EmptyID
                    /\ last.target.UserID = ActingID
                    /\ ~Acting.IsDemo )
  /\ IsMutation /\ HasIdentity /\ Acting.IsDemo =>
       /\ ~last.changed
       /\ last.err = IF last.mutation = "create" /\ ~last.valid
                     THEN EINVALID ELSE EUNAUTHORIZED

\* A demo identity creating a valid record it owns is refused.
C7_Witness ==
  /\ last.op \in {"CreateFile", "CreateTag", "CreateActor"}
  /\ HasIdentity /\ Acting.IsDemo /\ ActingID # EmptyID
  /\ last.input.UserID = ActingID /\ last.valid
  /\ last.err = EUNAUTHORIZED /\ ~last.changed

\* C10: CanDeleteSession is true exactly when the context holds an identity
\* with a non-empty id equal to the session's UserID; DeleteSession of an
\* existing session by any other caller returns EUNAUTHORIZED and leaves the
\* session in the store, and DeleteSession of an id no session has returns
\* ENOTFOUND.
C10_DeleteSessionOwnerOnly ==
  /\ last.op = "CanDeleteSession" =>
       last.ret = (HasIdentity /\ ActingID # EmptyID /\ last.target.UserID = ActingID)
  /\ last.op = "DeleteSession" =>
       IF last.found.isNil
       THEN last.err = ENOTFOUND /\ ~last.changed
       ELSE IF HasIdentity /\ ActingID # EmptyID /\ last.found.UserID = ActingID
       THEN /\ last.err = OK
            /\ \A i \in 1..Len(sessions) : sessions[i].ID # last.id
       ELSE /\ last.err = EUNAUTHORIZED
            /\ \E i \in 1..Len(sessions) : sessions[i] = last.found

\* Another identity asked to delete an existing session and was refused.
C10_Witness ==
  /\ last.op = "DeleteSession" /\ ~last.found.isNil
  /\ HasIdentity /\ ActingID # EmptyID /\ last.found.UserID # ActingID
  /\ last.err = EUNAUTHORIZED
  /\ \E i \in 1..Len(sessions) : sessions[i] = last.found

AuthenticateDone == req.pc \in {"requireAuth", "handler", "redirected", "done"}
BothCookies == req.Session.present /\ req.Token.present
Anonymous(ctx) == UserFromContext(ctx).isNil /\ SessionFromContext(ctx).isNil

\* C2 (as claimed): when the request carries both cookies, the store resolves
\* them to a session and that session's user exists and is not removed,
\* authenticate hands the next handler a context carrying that user and that
\* session.
C2_ResolveAttachesIdentity ==
  AuthenticateDone /\ BothCookies /\ ~req.session.isNil /\ req.userExisted =>
    /\ ~UserFromContext(req.ctx).isNil
    /\ UserFromContext(req.ctx).ID = req.session.UserID
    /\ SessionFromContext(req.ctx) = req.session

\* C3: authenticate never fails a request: once it is through, it has called
\* the next handler exactly once (and not before), and when a cookie is
\* absent, or the session lookup or the user lookup gave an error or
\* nothing, the context carries neither an identity nor a session.
C3_ResolveNeverFails ==
  /\ req.pc \in {"authenticate", "authenticate_user"} => req.next = 0
  /\ req.pc = "authenticate_user" => Anonymous(req.ctx)
  /\ AuthenticateDone =>
       /\ req.next = 1
       /\ (~BothCookies \/ req.session.isNil \/ ~req.userFound) => Anonymous(req.ctx)

\* Both cookies name an existing session, the user lookup fails, and the
\* request goes on anonymous.
C3_Witness ==
  /\ AuthenticateDone /\ BothCookies /\ ~req.session.isNil /\ ~req.userFound
  /\ req.next = 1 /\ Anonymous(req.ctx)

\* C4: on a protected route requireAuth runs after authenticate, and the
\* route's handler is reached only with a context holding an identity with a
\* non-empty id and a session with a non-empty id; otherwise the request is
\* redirected and the handler is never invoked.
C4_RequireGatesHandler ==
  req.route = "protected" =>
    /\ req.pc = "requireAuth" => req.next = 1
    /\ req.pc \in {"handler", "done"} =>
         /\ req.next = 1
         /\ UserIDFromContext(req.ctx) # EmptyID
         /\ ~SessionFromContext(req.ctx).isNil
         /\ SessionFromContext(req.ctx).ID # EmptyID
    /\ req.pc = "redirected" =>
         /\ ~req.handled
         /\ \/ UserIDFromContext(req.ctx) = EmptyID
            \/ SessionFromContext(req.ctx).isNil
            \/ SessionFromContext(req.ctx).ID = EmptyID
    /\ req.handled => req.pc = "done"

\* A request on a protected route without an identity is redirected.
C4_Witness ==
  /\ req.route = "protected" /\ req.pc = "redirected"
  /\ UserIDFromContext(req.ctx) = EmptyID /\ ~req.handled

\* The authorization predicates a mutating call c evaluates on the stores as
\* they are before the call, and whether one of them returns false.
FindByIDDenied(c) ==
  CASE c.op \in {"UpdateUser", "RemoveUser"} ->
         ~CanFindUser(c.ctx, UserFilter(PtrTo("findUserByID.id", c.id), NilPtr))
    [] c.op \in {"UpdateFile", "RemoveFile"} ->
         ~CanFindFile(c.ctx, FileFilter(PtrTo("findFileByID.id", c.id), NilPtr))
    [] c.op \in {"UpdateTag", "RemoveTag"} ->
         ~CanFindTag(c.ctx, TagFilter(PtrTo("findTagByID.id", c.id), NilPtr))
    [] c.op \in {"UpdateActor", "RemoveActor"} ->
         ~CanFindActor(c.ctx, ActorFilter(PtrTo("findActorByID.id", c.id), NilPtr))
    [] OTHER -> FALSE

WriteDenied(c) ==
  CASE c.op = "CreateUser" -> UserValidate(c.input) = OK /\ ~CanCreateUser(c.ctx)
    [] c.op \in {"UpdateUser", "RemoveUser"} ->
         /\ findUserByID(c.ctx, users, c.id).err = OK
         /\ ~CanUpdateUser(c.ctx, findUserByID(c.ctx, users, c.id).user).panic
         /\ ~CanUpdateUser(c.ctx, findUserByID(c.ctx, users, c.id).user).ret
    [] c.op = "CreateFile" -> FileValidate(c.input) = OK /\ ~CanUpdateFile(c.ctx, c.input)
    [] c.op = "CreateTag" -> TagValidate(c.input) = OK /\ ~CanUpdateTag(c.ctx, c.input)
    [] c.op = "CreateActor" -> ActorValidate(c.input) = OK /\ ~CanUpdateActor(c.ctx, c.input)
    [] c.op \in {"UpdateFile", "RemoveFile"} ->
         /\ findFileByID(c.ctx, files, c.id).err = OK
         /\ ~CanUpdateFile(c.ctx, findFileByID(c.ctx, files, c.id).row)
    [] c.op \in {"UpdateTag", "RemoveTag"} ->
         /\ findTagByID(c.ctx, tags, c.id).err = OK
         /\ ~CanUpdateTag(c.ctx, findTagByID(c.ctx, tags, c.id).row)
    [] c.op \in {"UpdateActor", "RemoveActor"} ->
         /\ findActorByID(c.ctx, actors, c.id).err = OK
         /\ ~CanUpdateActor(c.ctx, findActorByID(c.ctx, actors, c.id).row)
    [] c.op = "DeleteSession" ->
         /\ findSessionByID(c.ctx, sessions, c.id).err = OK
         /\ ~CanDeleteSession(c.ctx, findSessionByID(c.ctx, sessions, c.id).session)
    [] OTHER -> FALSE

\* SELECT statements a denied call has issued when the predicate is asked.
ReadsBeforeDenial(c) ==
  IF c.op \in {"UpdateUser", "RemoveUser", "DeleteSession"} /\ ~FindByIDDenied(c) THEN 1 ELSE 0

\* C11: in every create, update and remove on files, tags, actors and users,
\* and in DeleteSession, whenever an authorization predicate the call
\* evaluates returns false, the call returns EUNAUTHORIZED, has issued no
\* write statement, and every stored record is as it was before the call.
C11_DeniedWritesNothing ==
  [][ FindByIDDenied(last') \/ WriteDenied(last') =>
        /\ last'.err = EUNAUTHORIZED
        /\ last'.queries = ReadsBeforeDenial(last')
        /\ <<users, files, tags, actors, sessions>>' = <<users, files, tags, actors, sessions>>
    ]_vars

\* A demo admin asked to remove an existing user: the row is found, the
\* predicate says no, and the row is still there.
C11_Witness ==
  /\ last.op = "RemoveUser" /\ HasIdentity /\ Acting.IsAdmin /\ Acting.IsDemo
  /\ last.err = EUNAUTHORIZED /\ last.queries = 1
  /\ \E i \in 1..Len(users) : users[i].id = last.id /\ ~users[i].removed

SessionOps == {"CreateSession", "DeleteSession", "FindSessionForToken"}
StorageOps ==
  SessionOps \cup FindOps \cup
  {"CreateUser", "UpdateUser", "RemoveUser", "FindUsers", "FindUserByID",
   "CreateFile", "UpdateFile", "RemoveFile", "FindFileByID",
   "CreateTag", "UpdateTag", "RemoveTag", "FindTagByID",
   "CreateActor", "UpdateActor", "RemoveActor", "FindActorByID"}

\* C12 (as claimed): every storage call, CreateSession and the session
\* lookups included, asks an authorization predicate before its first
\* statement; every predicate of the policy requires an acting identity, so
\* a call without one issues no statement and changes nothing.
C12_EveryCallAuthorizes ==
  last.op \in StorageOps /\ ~HasIdentity => last.queries = 0 /\ ~last.changed

\* The first predicate a call c on users, files, tags or actors asks, and
\* whether it returns false.
FirstPredicateDenied(c) ==
  CASE c.op = "FindUsers" -> ~CanFindUser(c.ctx, c.filter)
    [] c.op = "FindFiles" -> ~CanFindFile(c.ctx, c.filter)
    [] c.op = "FindTags" -> ~CanFindTag(c.ctx, c.filter)
    [] c.op = "FindActors" -> ~CanFindActor(c.ctx, c.filter)
    [] c.op = "FindUserByID" ->
         ~CanFindUser(c.ctx, UserFilter(PtrTo("findUserByID.id", c.id), NilPtr))
    [] c.op = "FindFileByID" ->
         ~CanFindFile(c.ctx, FileFilter(PtrTo("findFileByID.id", c.id), NilPtr))
    [] c.op = "FindTagByID" ->
         ~CanFindTag(c.ctx, TagFilter(PtrTo("findTagByID.id", c.id), NilPtr))
    [] c.op = "FindActorByID" ->
         ~CanFindActor(c.ctx, ActorFilter(PtrTo("findActorByID.id", c.id), NilPtr))
    [] c.op = "CreateUser" -> ~CanCreateUser(c.ctx)
    [] c.op = "CreateFile" -> ~CanUpdateFile(c.ctx, c.input)
    [] c.op = "CreateTag" -> ~CanUpdateTag(c.ctx, c.input)
    [] c.op = "CreateActor" -> ~CanUpdateActor(c.ctx, c.input)
    [] OTHER -> FindByIDDenied(c)

\* C12 (amended): on users, files, tags and actors every find, create,
\* update and remove asks its predicate before its first statement and
\* before its write.  On sessions only DeleteSession asks one
\* (CanDeleteSession, before the DELETE and after an unchecked lookup by
\* id); createSession and findSessions, hence FindSessionForToken, ask
\* none and serve every context.
C12_PredicateBeforeStatement ==
  [][ /\ last'.op \in StorageOps \ SessionOps =>
           /\ last'.queries > 0 => ~FirstPredicateDenied(last')
           /\ <<users, files, tags, actors>>' # <<users, files, tags, actors>> =>
                ~FirstPredicateDenied(last') /\ ~WriteDenied(last')
      /\ last'.op = "DeleteSession" =>
           /\ last'.queries >= 1
           /\ sessions' # sessions => ~WriteDenied(last')
      /\ last'.op = "CreateSession" =>
           /\ last'.err = SessionValidate(last'.input)
           /\ last'.err = OK => last'.queries = 1 /\ sessions' # sessions
      /\ last'.op = "FindSessionForToken" =>
           last'.queries = 1 /\ last'.err \in {OK, ENOTFOUND}
    ]_vars

\* A context without identity created a session.
C12_Witness ==
  /\ last.op = "CreateSession" /\ ~HasIdentity
  /\ last.err = OK /\ last.queries = 1 /\ last.changed
  /\ \E i \in 1..Len(sessions) : sessions[i].UserID = last.input.UserID

FindByIDOps == {"FindFileByID", "FindTagByID", "FindActorByID"}
ChangeByIDOps == {"UpdateFile", "RemoveFile", "UpdateTag", "RemoveTag",
                  "UpdateActor", "RemoveActor"}
\* Rows of the call's table that carry the id the call names.
RowsWithID == SelectSeq(TableOf(last.kind), LAMBDA row : row.ID = last.id)

\* C13 (as claimed): for an identified, non-demo caller, FindFileByID,
\* FindTagByID and FindActorByID return the caller's non-removed record with
\* that id; they, UpdateX and RemoveX return ENOTFOUND when no record has the
\* id; UpdateX and RemoveX return EUNAUTHORIZED only when the record is not
\* the caller's.
C13_OwnerReachesRecordByID ==
  last.op \in FindByIDOps \cup ChangeByIDOps
    /\ HasIdentity /\ ActingID # EmptyID /\ ~Acting.IsDemo =>
    /\ last.op \in FindByIDOps /\ Len(RowsWithID) > 0
         /\ ~RowsWithID[1].removed /\ RowsWithID[1].UserID = ActingID =>
         last.err = OK /\ last.row = RowsWithID[1]
    /\ Len(RowsWithID) = 0 => last.err = ENOTFOUND
    /\ last.op \in ChangeByIDOps /\ last.err = EUNAUTHORIZED =>
         Len(RowsWithID) > 0 /\ RowsWithID[1].UserID # ActingID

\* C14 (as claimed): the identity FindUserByID returns for a user whose
\* stored record has is_demo = TRUE has IsDemo = TRUE.
C14_DemoFlagLoaded ==
  last.op = "FindUserByID" /\ last.err = OK =>
    \A i \in 1..Len(users) :
      users[i].id = last.id /\ ~users[i].removed => last.user.IsDemo = users[i].is_demo

\* C15: for a non-empty password and a non-empty salt HashPassword returns a
\* key of exactly six "$"-segments that carries the Argon2 version of the
\* implementation and decodes back to the bytes of the salt and to the
\* digest, and VerifyPassword returns nil for the password and that key.
HashedKey == HashPassword(last.password, last.salt)
C15_VerifyAcceptsHashedKey ==
  /\ (last.op = "HashPassword" /\ last.password # <<>> /\ last.salt # <<>>) =>
       /\ last.err = OK
       /\ Len(Split(last.key, "$")) = 6
       /\ ScanVersion(Split(last.key, "$")[3]) = [err |-> FALSE, val |-> ArgonVersion, rest |-> <<>>]
       /\ DecodeBase64String(Split(last.key, "$")[5]) = [err |-> FALSE, bytes |-> Bytes(last.salt)]
       /\ DecodeBase64String(Split(last.key, "$")[6]) =
            [err |-> FALSE,
             bytes |-> IDKey(Bytes(last.password), Bytes(last.salt),
                             ArgonTime, ArgonMemory, ArgonThreads, ArgonKeyLen).key]
       /\ VerifyPassword(last.password, last.key) = Verdict(OK)
  /\ (last.op = "VerifyPassword" /\ last.password # <<>> /\ HashedKey.err = OK
        /\ last.key = HashedKey.key) =>
       last.err = OK /\ ~last.panic

C15_Witness ==
  /\ last.op = "VerifyPassword"
  /\ last.password # <<>>
  /\ HashedKey.err = OK
  /\ last.key = HashedKey.key
  /\ last.err = OK

\* C16: with key = HashPassword(of, salt), VerifyPassword never returns nil
\* for another password, for the key with a byte of its decoded salt or of
\* its decoded hash changed, or for the key with characters appended.
HashedFor == HashPassword(last.of, last.salt).key
C16_AlteredKeyNeverVerifies ==
  (/\ last.op = "VerifyPassword"
   /\ last.settings = DefaultSettings
   /\ \/ last.how = "none" /\ last.password # last.of
      \/ last.how \in {"salt byte", "hash byte"}
      \/ last.how \in {"append newline", "append return", "append digit", "append dollar"}
         /\ Len(last.key) > Len(HashedFor)
         /\ SubSeq(last.key, 1, Len(HashedFor)) = HashedFor)
  => last.err # OK

\* C17: VerifyPassword never returns nil for a key whose hash segment does
\* not decode to exactly ArgonKeyLen bytes (an empty hash segment included),
\* whatever the password; and the hash segment of every key HashPassword
\* returns decodes to exactly ArgonKeyLen bytes.
EmbeddedHash == DecodeBase64String(Split(last.key, "$")[6])
C17_OnlyConfiguredKeyLenAccepted ==
  /\ (/\ last.op = "VerifyPassword"
      /\ Len(Split(last.key, "$")) = 6
      /\ (EmbeddedHash.err \/ Len(EmbeddedHash.bytes) # ArgonKeyLen))
     => last.err # OK
  /\ (last.op = "HashPassword" /\ last.err = OK)
     => (~EmbeddedHash.err /\ Len(EmbeddedHash.bytes) = ArgonKeyLen)

\* C18: VerifyPassword returns an error whose ErrorCode is EINVALID when the
\* password or the key is empty, when the key does not split into exactly six
\* "$"-segments, when the version in the key is not the Argon2 version of the
\* implementation, and when the version or one of the memory, time and
\* parallelism fields does not parse.
KeySegments == Split(last.key, "$")
C18_MalformedKeyIsInvalidArgument ==
  (/\ last.op = "VerifyPassword"
   /\ \/ last.password = <<>>
      \/ last.key = <<>>
      \/ Len(KeySegments) # 6
      \/ ScanVersion(KeySegments[3]).err
      \/ ScanVersion(KeySegments[3]).val # ArgonVersion
      \/ ScanSettings(KeySegments[4]).err)
  => ErrorCode(last.err) = EINVALID

\* C19: for a well-formed key and a password other than the one the key was
\* built for, the error VerifyPassword returns does not carry the code it
\* returns for a malformed key (EINVALID, as for a key of too few segments).
MalformedKeyCode ==
  ErrorCode(VerifyPassword(last.password, Alter("two segments", last.key)).err)
C19_MismatchToldApartFromMalformedKey ==
  (/\ last.op = "VerifyPassword"
   /\ last.how = "none"
   /\ last.password # <<>>
   /\ last.password # last.of)
  => (ErrorCode(last.err) # EINVALID /\ ErrorCode(last.err) # MalformedKeyCode)

\* C20: VerifyPassword recomputes the digest with the memory, time and
\* parallelism settings and the salt read from the key and with the length
\* of the decoded hash, not with the defaults: a well-formed key built for a
\* password and a salt under any settings is accepted for that password, and
\* its verdict is the comparison of the embedded hash with that digest.
DigestFromKey ==
  IDKey(Bytes(last.password), DecodeBase64String(KeySegments[5]).bytes,
        ScanSettings(KeySegments[4]).Time, ScanSettings(KeySegments[4]).Memory,
        ScanSettings(KeySegments[4]).Threads, Len(EmbeddedHash.bytes)).key
C20_VerifiesWithSettingsOfKey ==
  (last.op = "VerifyPassword" /\ last.how = "none" /\ last.password # <<>>)
  => /\ (last.err = OK) = (EmbeddedHash.bytes = DigestFromKey)
     /\ (last.password = last.of) => last.err = OK

C20_Witness ==
  /\ last.op = "VerifyPassword"
  /\ last.how = "none"
  /\ last.password = last.of
  /\ last.settings.Time # ArgonTime
  /\ ScanSettings(KeySegments[4]).Time = last.settings.Time
  /\ last.err = OK

\* C21: after a CreateUser or an UpdateUser that returns nil and supplied a
\* password, the stored password is the key HashPassword returns for that
\* password and a salt of NewSalt, it is not the password itself, and
\* VerifyPassword returns nil for the password and the stored key; an
\* UpdateUser that returns nil and supplied no password leaves the stored
\* key as it was.
IsFreshKey(raw, stored) ==
  /\ \E r \in RandomSources : stored = HashPassword(raw, NewSalt(r).s).key
  /\ stored # raw
  /\ VerifyPassword(raw, stored) = Verdict(OK)
C21_StoredPasswordIsCredentialKey ==
  [][/\ (last'.op = "CreateUser" /\ last'.err = OK) =>
          IsFreshKey(last'.input.Password, users'[Len(users')].password)
     /\ (last'.op = "UpdateUser" /\ last'.err = OK /\ ~IsNilPtr(last'.update.Password)) =>
          IsFreshKey(last'.update.Password.val,
                     users'[RowIndex(users', last'.id)].password)
     /\ (last'.op = "UpdateUser" /\ last'.err = OK /\ IsNilPtr(last'.update.Password)) =>
          users'[RowIndex(users', last'.id)].password =
            users[RowIndex(users, last'.id)].password]_vars

C21_Witness ==
  /\ last.op = "UpdateUser"
  /\ last.err = OK
  /\ ~IsNilPtr(last.update.Password)
  /\ users[RowIndex(users, last.id)].password # HashPassword(Password1, SaltA).key
  /\ IsFreshKey(last.update.Password.val, users[RowIndex(users, last.id)].password)

\* C22 (as claimed): a session leaves the store only through a DeleteSession
\* that returns nil; a session that is in the store when authenticate looks
\* it up (its user existing) identifies that request, whatever is deleted
\* afterwards; and a request whose lookup finds no session goes on without
\* identity and session.
SessionLeft(row) == \A j \in 1..Len(sessions') : sessions'[j] # row
RemovedByDeleteSession ==
  \A i \in 1..Len(sessions) :
    SessionLeft(sessions[i]) =>
      \E ctx \in Contexts :
        /\ deleteSession(ctx, sessions, sessions[i].ID).err = OK
        /\ sessions' = deleteSession(ctx, sessions, sessions[i].ID).tbl
FoundSessionIdentifies ==
  (AuthenticateDone /\ req.lookedUp /\ ~req.session.isNil /\ req.userExisted) =>
    /\ SessionFromContext(req.ctx) = req.session
    /\ UserFromContext(req.ctx).ID = req.session.UserID
MissingSessionAnonymous ==
  (AuthenticateDone /\ req.lookedUp /\ req.session.isNil) => Anonymous(req.ctx)
LooksUpStore ==
  (req.pc = "authenticate" /\ req'.pc # "authenticate" /\ BothCookies) =>
    req'.session = findSessionForToken(req.ctx, sessions, req.Session.value,
                                       req.Token.value).session
C22_SessionLifetime ==
  [][/\ RemovedByDeleteSession
     /\ LooksUpStore
     /\ FoundSessionIdentifies'
     /\ MissingSessionAnonymous']_vars

\* C23 (as claimed): called with a context that carries no identity,
\* ShouldRunSetup returns true exactly when the store holds no user, and
\* false when it holds at least one.
UserExists == \E i \in 1..Len(users) : ~users[i].removed
C23_SetupWhenNoUser ==
  (last.op = "ShouldRunSetup" /\ Anonymous(last.ctx)) =>
    (last.err = OK /\ last.ret = ~UserExists)

\* C24 (as claimed): GenerateRandomBytes(n) returns an EINVALID error for
\* every n below zero, n = -1 included, and a slice of exactly n bytes for
\* every n from zero on.
C24_NegativeLengthInvalidArgument ==
  last.op = "GenerateRandomBytes" =>
    /\ last.n < 0 => (~last.panic /\ ErrorCode(last.err) = EINVALID)
    /\ last.n >= 0 => (~last.panic /\ last.err = OK /\ Len(last.bytes) = last.n)

\* C25: HashPassword returns an EINVALID error and no key when the password
\* or the salt is empty, and a key and no error when both are non-empty.
C25_HashPasswordRejectsEmpty ==
  last.op = "HashPassword" =>
    /\ (last.password = <<>> \/ last.salt = <<>>) =>
         (ErrorCode(last.err) = EINVALID /\ last.key = <<>>)
    /\ (last.password # <<>> /\ last.salt # <<>>) =>
         (last.err = OK /\ last.key # <<>>)

C25_Witness ==
  /\ last.op = "HashPassword"
  /\ last.password # <<>>
  /\ last.salt = <<>>
  /\ last.err = EINVALID
  /\ last.key = <<>>

\* C26: NewToken returns at least 32 characters, NewSalt at least 16 and
\* NewPassword at least 8: the unpadded base64 of 32, 16 and 8 random bytes.
\* A session with such a token passes Session.Validate and a user with such
\* a password passes User.Validate.
IssuedLength(minChars, nBytes) ==
  /\ last.err = OK
  /\ Len(last.s) >= minChars
  /\ DecodeBase64String(last.s).err = FALSE
  /\ Len(DecodeBase64String(last.s).bytes) = nBytes
C26_IssuedStringsLongEnough ==
  /\ last.op = "NewToken" =>
       /\ IssuedLength(32, 32)
       /\ Len(last.s) >= MinTokenLen
       /\ SessionValidate(Session(NewID("u", 1), last.s)) = OK
  /\ last.op = "NewSalt" => IssuedLength(16, 16)
  /\ last.op = "NewPassword" =>
       /\ IssuedLength(8, 8)
       /\ Len(last.s) >= MinPasswordLen
       /\ UserValidate(UserInput(Ann, last.s, FALSE)) = OK

C26_Witness ==
  /\ last.op = "NewPassword"
  /\ last.err = OK
  /\ Len(last.s) = 11
  /\ UserValidate(UserInput(Ann, last.s, FALSE)) = OK

\* C27 (as claimed): decoding the encoding of a byte sequence gives the byte
\* sequence back (the empty sequence encodes to the empty string), and
\* encoding what DecodeBase64String returns without error for a string gives
\* that string back.
C27_Base64RoundTrip ==
  /\ last.op = "EncodeToBase64String" =>
       /\ DecodeBase64String(last.s) = [err |-> FALSE, bytes |-> last.b]
       /\ (last.b = <<>>) => (last.s = <<>>)
  /\ (last.op = "DecodeBase64String" /\ ~last.err) =>
       EncodeToBase64String(last.b) = last.s

\* C28 (as claimed): every authorization predicate, evaluated in a context
\* that carries no identity, returns normally and returns false, whatever the
\* filter or target.
PredicateOps ==
  {"CanFindUser", "CanCreateUser", "CanUpdateUser", "CanFindFile", "CanFindTag",
   "CanFindActor", "CanUpdateFile", "CanUpdateTag", "CanUpdateActor",
   "CanDeleteSession"}
C28_AnonymousPredicatesReturnFalse ==
  (last.op \in PredicateOps /\ Anonymous(last.ctx)) =>
    (~last.panic /\ last.ret = FALSE)

\* C29: the is_admin flag of a user becomes true only through an UpdateUser
\* that returns nil and was made by an identity that is an admin; CreateUser
\* stores is_admin = false whatever its input says, and no UpdateUser made by
\* an identity that is not an admin turns any is_admin to true.
BecomesAdmin(i) ==
  /\ users'[i].is_admin
  /\ ~(i <= Len(users) /\ users[i].is_admin)
C29_AdminOnlyThroughAdminUpdate ==
  [][/\ \A i \in 1..Len(users') :
          BecomesAdmin(i) =>
            /\ last'.op = "UpdateUser"
            /\ last'.err = OK
            /\ last'.id = users'[i].id
            /\ ~UserFromContext(last'.ctx).isNil
            /\ UserFromContext(last'.ctx).IsAdmin
     /\ (last'.op = "CreateUser" /\ last'.err = OK) =>
          (Len(users') = Len(users) + 1 /\ ~users'[Len(users')].is_admin)
     /\ (last'.op = "UpdateUser" /\ ~UserFromContext(last'.ctx).IsAdmin) =>
          \A i \in 1..Len(users') : ~BecomesAdmin(i)]_vars

C29_Witness ==
  /\ last.op = "UpdateUser"
  /\ last.err = OK
  /\ last.update.IsAdmin = BoolPtr(TRUE)
  /\ UserFromContext(last.ctx).IsAdmin
  /\ users[RowIndex(users, last.id)].is_admin

\* C30: once authenticate is through, the context of the request carries an
\* identity exactly when it carries a session; when it carries both, the
\* session's UserID is the identity's id and the session is the one the
\* store returned for the presented id and token; and attaching a session or
\* an identity to a context leaves the other one and the request id as they
\* were.
AttachKeepsOthers(ctx, session, user) ==
  LET withSession == NewContextWithSession(ctx, session)
      withBoth == NewContextWithUser(withSession, user)
      withUser == NewContextWithUser(ctx, user)
  IN
  /\ SessionFromContext(withSession) = session
  /\ UserFromContext(withSession) = UserFromContext(ctx)
  /\ RequestIDFromContext(withSession) = RequestIDFromContext(ctx)
  /\ UserFromContext(withBoth) = user
  /\ SessionFromContext(withBoth) = session
  /\ RequestIDFromContext(withBoth) = RequestIDFromContext(ctx)
  /\ UserFromContext(withUser) = user
  /\ SessionFromContext(withUser) = SessionFromContext(ctx)
  /\ UserFromContext(NewContextWithSession(withUser, session)) = user
C30_IdentityIffSession ==
  /\ AuthenticateDone =>
       /\ UserFromContext(req.ctx).isNil = SessionFromContext(req.ctx).isNil
       /\ ~UserFromContext(req.ctx).isNil =>
            /\ SessionFromContext(req.ctx).UserID = UserFromContext(req.ctx).ID
            /\ SessionFromContext(req.ctx) = req.session
            /\ req.lookedUp
  /\ \A i \in 1..Len(sessions), j \in 1..Len(users) :
       /\ AttachKeepsOthers(req.ctx, sessions[i], ScanUser(users[j]))
       /\ AttachKeepsOthers(NewContextWithRequestID(req.ctx, "r1"), sessions[i],
                            ScanUser(users[j]))

\* authenticate is through for a request whose cookies named a session of
\* the store, while the store holds a session and a user.
C30_Witness ==
  /\ AuthenticateDone
  /\ req.lookedUp
  /\ ~req.session.isNil
  /\ Len(sessions) > 0
  /\ Len(users) > 0
  /\ UserFromContext(req.ctx).isNil = SessionFromContext(req.ctx).isNil

====
